---------------------------- MODULE Spec2Model ----------------------------
(***************************************************************************)
(* Model of the ingredient / nutrient lookup handler (src/index.mjs).      *)
(*                                                                         *)
(* A request is looked up in the in-process cache, then in the DynamoDB    *)
(* table, and on a miss is generated by the chat-completion service,       *)
(* validated, classified, stored and cached.                               *)
(*                                                                         *)
(* A JavaScript string is the sequence of its UTF-16 code units, so that   *)
(* trim, toLowerCase, includes, indexOf and substring are computed as the  *)
(* code computes them.  A code unit of printable ASCII is the string of    *)
(* that one character; TAB, LF, FF and CR are "\t", "\n", "\f" and "\r";   *)
(* every other code unit is written "U+hhhh" (four upper-case hexadecimal  *)
(* digits).                                                                *)
(* JSON values are records [type, str, members].                           *)
(***************************************************************************)
EXTENDS Integers, Sequences, FiniteSets, TLC

(***************************************************************************)
(* Bounds of the model.                                                    *)
(***************************************************************************)
\* number of requests the process receives
MaxRequests == 2
\* number of clock advances
MaxTicks == 1
\* number of distinct values randomUUID may return
MaxUUIDs == 2

(***************************************************************************)
(* JavaScript string primitives.                                           *)
(***************************************************************************)
\* the code units U+0021 to U+007E
Printable ==
  <<
     "!", "\"", "#", "$", "%", "&", "'", "(", ")", "*", "+", ",", "-", ".", "/", "0",
     "1", "2", "3", "4", "5", "6", "7", "8", "9", ":", ";", "<", "=", ">", "?", "@",
     "A", "B", "C", "D", "E", "F", "G", "H", "I", "J", "K", "L", "M", "N", "O", "P",
     "Q", "R", "S", "T", "U", "V", "W", "X", "Y", "Z", "[", "\\", "]", "^", "_", "U+0060",
     "a", "b", "c", "d", "e", "f", "g", "h", "i", "j", "k", "l", "m", "n", "o", "p",
     "q", "r", "s", "t", "u", "v", "w", "x", "y", "z", "{", "|", "}", "~" >>

HexDigits == <<"0","1","2","3","4","5","6","7","8","9","A","B","C","D","E","F">>

\* the code unit with the number n (String.fromCharCode)
UnitOf(n) ==
  CASE n = 9 -> "\t" [] n = 10 -> "\n" [] n = 12 -> "\f" [] n = 13 -> "\r"
    [] n = 32 -> " "
    [] n \in 33..126 -> Printable[n - 32]
    [] OTHER -> "U+" \o HexDigits[(n \div 4096) + 1] \o HexDigits[((n \div 256) % 16) + 1]
                     \o HexDigits[((n \div 16) % 16) + 1] \o HexDigits[(n % 16) + 1]

\* the code units of a surrogate pair
HighSurrogates == {UnitOf(n) : n \in \hD800..\hDBFF}
LowSurrogates == {UnitOf(n) : n \in \hDC00..\hDFFF}

\* the UTF-16 encoding of the code point n (String.fromCodePoint)
Encode(n) ==
  IF n < \h10000
    THEN <<UnitOf(n)>>
    ELSE <<UnitOf(\hD800 + ((n - \h10000) \div 1024)),
           UnitOf(\hDC00 + ((n - \h10000) % 1024))>>

\* position i of s begins a surrogate pair
IsPairAt(s, i) ==
  i >= 1 /\ i < Len(s) /\ s[i] \in HighSurrogates /\ s[i + 1] \in LowSurrogates

\* position i of s is the second code unit of a surrogate pair
IsTrailAt(s, i) == IsPairAt(s, i - 1)

\* the code point that begins at position i of s, as its code units; a
\* surrogate without its partner is a code point of its own
CodePointAt(s, i) == IF IsPairAt(s, i) THEN <<s[i], s[i + 1]>> ELSE <<s[i]>>

\* The simple lower-case mappings of the Unicode character database
\* (UnicodeData.txt), as <<first, last, step, delta>>: the code points first,
\* first + step, ..., last have the lower case code point + delta.
LowerCaseRanges ==
  {
    <<\h0041, \h005A, 1, 32>>, <<\h00C0, \h00D6, 1, 32>>, <<\h00D8, \h00DE, 1, 32>>,
    <<\h0100, \h012E, 2, 1>>, <<\h0132, \h0136, 2, 1>>, <<\h0139, \h0147, 2, 1>>,
    <<\h014A, \h0176, 2, 1>>, <<\h0178, \h0178, 1, -121>>, <<\h0179, \h017D, 2, 1>>,
    <<\h0181, \h0181, 1, 210>>, <<\h0182, \h0184, 2, 1>>, <<\h0186, \h0186, 1, 206>>,
    <<\h0187, \h0187, 1, 1>>, <<\h0189, \h018A, 1, 205>>, <<\h018B, \h018B, 1, 1>>,
    <<\h018E, \h018E, 1, 79>>, <<\h018F, \h018F, 1, 202>>, <<\h0190, \h0190, 1, 203>>,
    <<\h0191, \h0191, 1, 1>>, <<\h0193, \h0193, 1, 205>>, <<\h0194, \h0194, 1, 207>>,
    <<\h0196, \h0196, 1, 211>>, <<\h0197, \h0197, 1, 209>>, <<\h0198, \h0198, 1, 1>>,
    <<\h019C, \h019C, 1, 211>>, <<\h019D, \h019D, 1, 213>>, <<\h019F, \h019F, 1, 214>>,
    <<\h01A0, \h01A4, 2, 1>>, <<\h01A6, \h01A6, 1, 218>>, <<\h01A7, \h01A7, 1, 1>>,
    <<\h01A9, \h01A9, 1, 218>>, <<\h01AC, \h01AC, 1, 1>>, <<\h01AE, \h01AE, 1, 218>>,
    <<\h01AF, \h01AF, 1, 1>>, <<\h01B1, \h01B2, 1, 217>>, <<\h01B3, \h01B5, 2, 1>>,
    <<\h01B7, \h01B7, 1, 219>>, <<\h01B8, \h01B8, 1, 1>>, <<\h01BC, \h01BC, 1, 1>>,
    <<\h01C4, \h01C4, 1, 2>>, <<\h01C5, \h01C5, 1, 1>>, <<\h01C7, \h01C7, 1, 2>>,
    <<\h01C8, \h01C8, 1, 1>>, <<\h01CA, \h01CA, 1, 2>>, <<\h01CB, \h01DB, 2, 1>>,
    <<\h01DE, \h01EE, 2, 1>>, <<\h01F1, \h01F1, 1, 2>>, <<\h01F2, \h01F4, 2, 1>>,
    <<\h01F6, \h01F6, 1, -97>>, <<\h01F7, \h01F7, 1, -56>>, <<\h01F8, \h021E, 2, 1>>,
    <<\h0220, \h0220, 1, -130>>, <<\h0222, \h0232, 2, 1>>, <<\h023A, \h023A, 1, 10795>>,
    <<\h023B, \h023B, 1, 1>>, <<\h023D, \h023D, 1, -163>>, <<\h023E, \h023E, 1, 10792>>,
    <<\h0241, \h0241, 1, 1>>, <<\h0243, \h0243, 1, -195>>, <<\h0244, \h0244, 1, 69>>,
    <<\h0245, \h0245, 1, 71>>, <<\h0246, \h024E, 2, 1>>, <<\h0370, \h0372, 2, 1>>,
    <<\h0376, \h0376, 1, 1>>, <<\h037F, \h037F, 1, 116>>, <<\h0386, \h0386, 1, 38>>,
    <<\h0388, \h038A, 1, 37>>, <<\h038C, \h038C, 1, 64>>, <<\h038E, \h038F, 1, 63>>,
    <<\h0391, \h03A1, 1, 32>>, <<\h03A3, \h03AB, 1, 32>>, <<\h03CF, \h03CF, 1, 8>>,
    <<\h03D8, \h03EE, 2, 1>>, <<\h03F4, \h03F4, 1, -60>>, <<\h03F7, \h03F7, 1, 1>>,
    <<\h03F9, \h03F9, 1, -7>>, <<\h03FA, \h03FA, 1, 1>>, <<\h03FD, \h03FF, 1, -130>>,
    <<\h0400, \h040F, 1, 80>>, <<\h0410, \h042F, 1, 32>>, <<\h0460, \h0480, 2, 1>>,
    <<\h048A, \h04BE, 2, 1>>, <<\h04C0, \h04C0, 1, 15>>, <<\h04C1, \h04CD, 2, 1>>,
    <<\h04D0, \h052E, 2, 1>>, <<\h0531, \h0556, 1, 48>>, <<\h10A0, \h10C5, 1, 7264>>,
    <<\h10C7, \h10C7, 1, 7264>>, <<\h10CD, \h10CD, 1, 7264>>, <<\h13A0, \h13EF, 1, 38864>>,
    <<\h13F0, \h13F5, 1, 8>>, <<\h1C89, \h1C89, 1, 1>>, <<\h1C90, \h1CBA, 1, -3008>>,
    <<\h1CBD, \h1CBF, 1, -3008>>, <<\h1E00, \h1E94, 2, 1>>, <<\h1E9E, \h1E9E, 1, -7615>>,
    <<\h1EA0, \h1EFE, 2, 1>>, <<\h1F08, \h1F0F, 1, -8>>, <<\h1F18, \h1F1D, 1, -8>>,
    <<\h1F28, \h1F2F, 1, -8>>, <<\h1F38, \h1F3F, 1, -8>>, <<\h1F48, \h1F4D, 1, -8>>,
    <<\h1F59, \h1F5F, 2, -8>>, <<\h1F68, \h1F6F, 1, -8>>, <<\h1F88, \h1F8F, 1, -8>>,
    <<\h1F98, \h1F9F, 1, -8>>, <<\h1FA8, \h1FAF, 1, -8>>, <<\h1FB8, \h1FB9, 1, -8>>,
    <<\h1FBA, \h1FBB, 1, -74>>, <<\h1FBC, \h1FBC, 1, -9>>, <<\h1FC8, \h1FCB, 1, -86>>,
    <<\h1FCC, \h1FCC, 1, -9>>, <<\h1FD8, \h1FD9, 1, -8>>, <<\h1FDA, \h1FDB, 1, -100>>,
    <<\h1FE8, \h1FE9, 1, -8>>, <<\h1FEA, \h1FEB, 1, -112>>, <<\h1FEC, \h1FEC, 1, -7>>,
    <<\h1FF8, \h1FF9, 1, -128>>, <<\h1FFA, \h1FFB, 1, -126>>, <<\h1FFC, \h1FFC, 1, -9>>,
    <<\h2126, \h2126, 1, -7517>>, <<\h212A, \h212A, 1, -8383>>, <<\h212B, \h212B, 1, -8262>>,
    <<\h2132, \h2132, 1, 28>>, <<\h2160, \h216F, 1, 16>>, <<\h2183, \h2183, 1, 1>>,
    <<\h24B6, \h24CF, 1, 26>>, <<\h2C00, \h2C2F, 1, 48>>, <<\h2C60, \h2C60, 1, 1>>,
    <<\h2C62, \h2C62, 1, -10743>>, <<\h2C63, \h2C63, 1, -3814>>, <<\h2C64, \h2C64, 1, -10727>>,
    <<\h2C67, \h2C6B, 2, 1>>, <<\h2C6D, \h2C6D, 1, -10780>>, <<\h2C6E, \h2C6E, 1, -10749>>,
    <<\h2C6F, \h2C6F, 1, -10783>>, <<\h2C70, \h2C70, 1, -10782>>, <<\h2C72, \h2C72, 1, 1>>,
    <<\h2C75, \h2C75, 1, 1>>, <<\h2C7E, \h2C7F, 1, -10815>>, <<\h2C80, \h2CE2, 2, 1>>,
    <<\h2CEB, \h2CED, 2, 1>>, <<\h2CF2, \h2CF2, 1, 1>>, <<\hA640, \hA66C, 2, 1>>,
    <<\hA680, \hA69A, 2, 1>>, <<\hA722, \hA72E, 2, 1>>, <<\hA732, \hA76E, 2, 1>>,
    <<\hA779, \hA77B, 2, 1>>, <<\hA77D, \hA77D, 1, -35332>>, <<\hA77E, \hA786, 2, 1>>,
    <<\hA78B, \hA78B, 1, 1>>, <<\hA78D, \hA78D, 1, -42280>>, <<\hA790, \hA792, 2, 1>>,
    <<\hA796, \hA7A8, 2, 1>>, <<\hA7AA, \hA7AA, 1, -42308>>, <<\hA7AB, \hA7AB, 1, -42319>>,
    <<\hA7AC, \hA7AC, 1, -42315>>, <<\hA7AD, \hA7AD, 1, -42305>>, <<\hA7AE, \hA7AE, 1, -42308>>,
    <<\hA7B0, \hA7B0, 1, -42258>>, <<\hA7B1, \hA7B1, 1, -42282>>, <<\hA7B2, \hA7B2, 1, -42261>>,
    <<\hA7B3, \hA7B3, 1, 928>>, <<\hA7B4, \hA7C2, 2, 1>>, <<\hA7C4, \hA7C4, 1, -48>>,
    <<\hA7C5, \hA7C5, 1, -42307>>, <<\hA7C6, \hA7C6, 1, -35384>>, <<\hA7C7, \hA7C9, 2, 1>>,
    <<\hA7CB, \hA7CB, 1, -42343>>, <<\hA7CC, \hA7DA, 2, 1>>, <<\hA7DC, \hA7DC, 1, -42561>>,
    <<\hA7F5, \hA7F5, 1, 1>>, <<\hFF21, \hFF3A, 1, 32>>, <<\h10400, \h10427, 1, 40>>,
    <<\h104B0, \h104D3, 1, 40>>, <<\h10570, \h1057A, 1, 39>>, <<\h1057C, \h1058A, 1, 39>>,
    <<\h1058C, \h10592, 1, 39>>, <<\h10594, \h10595, 1, 39>>, <<\h10C80, \h10CB2, 1, 64>>,
    <<\h10D50, \h10D65, 1, 32>>, <<\h118A0, \h118BF, 1, 32>>, <<\h16E40, \h16E5F, 1, 32>>,
    <<\h16EA0, \h16EB8, 1, 27>>, <<\h1E900, \h1E921, 1, 34>> }

\* the one lower-case mapping to more than one code point (SpecialCasing.txt)
SpecialLowerCase == {<<Encode(\h0130), <<"i", "U+0307">>>>}

CaseMapping ==
  SpecialLowerCase \cup
  UNION {{<<Encode(r[1] + i * r[3]), Encode(r[1] + i * r[3] + r[4])>> :
            i \in 0..((r[2] - r[1]) \div r[3])} : r \in LowerCaseRanges}

\* toLowercase of ECMA-262 22.1.3.28 on one code point out of context
UpperToLower ==
  [c \in {p[1] : p \in CaseMapping} |-> (CHOOSE p \in CaseMapping : p[1] = c)[2]]

\* the code points with the property Cased and without Case_Ignorable, as
\* ranges <<first, last>>
CasedLetterRanges ==
  {
    <<\h0041, \h005A>>, <<\h0061, \h007A>>, <<\h00AA, \h00AA>>, <<\h00B5, \h00B5>>,
    <<\h00BA, \h00BA>>, <<\h00C0, \h00D6>>, <<\h00D8, \h00F6>>, <<\h00F8, \h01BA>>,
    <<\h01BC, \h01BF>>, <<\h01C4, \h0293>>, <<\h0296, \h02AF>>, <<\h0370, \h0373>>,
    <<\h0376, \h0377>>, <<\h037B, \h037D>>, <<\h037F, \h037F>>, <<\h0386, \h0386>>,
    <<\h0388, \h038A>>, <<\h038C, \h038C>>, <<\h038E, \h03A1>>, <<\h03A3, \h03F5>>,
    <<\h03F7, \h0481>>, <<\h048A, \h052F>>, <<\h0531, \h0556>>, <<\h0560, \h0588>>,
    <<\h10A0, \h10C5>>, <<\h10C7, \h10C7>>, <<\h10CD, \h10CD>>, <<\h10D0, \h10FA>>,
    <<\h10FD, \h10FF>>, <<\h13A0, \h13F5>>, <<\h13F8, \h13FD>>, <<\h1C80, \h1C8A>>,
    <<\h1C90, \h1CBA>>, <<\h1CBD, \h1CBF>>, <<\h1D00, \h1D2B>>, <<\h1D6B, \h1D77>>,
    <<\h1D79, \h1D9A>>, <<\h1E00, \h1F15>>, <<\h1F18, \h1F1D>>, <<\h1F20, \h1F45>>,
    <<\h1F48, \h1F4D>>, <<\h1F50, \h1F57>>, <<\h1F59, \h1F59>>, <<\h1F5B, \h1F5B>>,
    <<\h1F5D, \h1F5D>>, <<\h1F5F, \h1F7D>>, <<\h1F80, \h1FB4>>, <<\h1FB6, \h1FBC>>,
    <<\h1FBE, \h1FBE>>, <<\h1FC2, \h1FC4>>, <<\h1FC6, \h1FCC>>, <<\h1FD0, \h1FD3>>,
    <<\h1FD6, \h1FDB>>, <<\h1FE0, \h1FEC>>, <<\h1FF2, \h1FF4>>, <<\h1FF6, \h1FFC>>,
    <<\h2102, \h2102>>, <<\h2107, \h2107>>, <<\h210A, \h2113>>, <<\h2115, \h2115>>,
    <<\h2119, \h211D>>, <<\h2124, \h2124>>, <<\h2126, \h2126>>, <<\h2128, \h2128>>,
    <<\h212A, \h212D>>, <<\h212F, \h2134>>, <<\h2139, \h2139>>, <<\h213C, \h213F>>,
    <<\h2145, \h2149>>, <<\h214E, \h214E>>, <<\h2160, \h217F>>, <<\h2183, \h2184>>,
    <<\h24B6, \h24E9>>, <<\h2C00, \h2C7B>>, <<\h2C7E, \h2CE4>>, <<\h2CEB, \h2CEE>>,
    <<\h2CF2, \h2CF3>>, <<\h2D00, \h2D25>>, <<\h2D27, \h2D27>>, <<\h2D2D, \h2D2D>>,
    <<\hA640, \hA66D>>, <<\hA680, \hA69B>>, <<\hA722, \hA76F>>, <<\hA771, \hA787>>,
    <<\hA78B, \hA78E>>, <<\hA790, \hA7DC>>, <<\hA7F5, \hA7F6>>, <<\hA7FA, \hA7FA>>,
    <<\hAB30, \hAB5A>>, <<\hAB60, \hAB68>>, <<\hAB70, \hABBF>>, <<\hFB00, \hFB06>>,
    <<\hFB13, \hFB17>>, <<\hFF21, \hFF3A>>, <<\hFF41, \hFF5A>>, <<\h10400, \h1044F>>,
    <<\h104B0, \h104D3>>, <<\h104D8, \h104FB>>, <<\h10570, \h1057A>>, <<\h1057C, \h1058A>>,
    <<\h1058C, \h10592>>, <<\h10594, \h10595>>, <<\h10597, \h105A1>>, <<\h105A3, \h105B1>>,
    <<\h105B3, \h105B9>>, <<\h105BB, \h105BC>>, <<\h10C80, \h10CB2>>, <<\h10CC0, \h10CF2>>,
    <<\h10D50, \h10D65>>, <<\h10D70, \h10D85>>, <<\h118A0, \h118DF>>, <<\h16E40, \h16E7F>>,
    <<\h16EA0, \h16EB8>>, <<\h16EBB, \h16ED3>>, <<\h1D400, \h1D454>>, <<\h1D456, \h1D49C>>,
    <<\h1D49E, \h1D49F>>, <<\h1D4A2, \h1D4A2>>, <<\h1D4A5, \h1D4A6>>, <<\h1D4A9, \h1D4AC>>,
    <<\h1D4AE, \h1D4B9>>, <<\h1D4BB, \h1D4BB>>, <<\h1D4BD, \h1D4C3>>, <<\h1D4C5, \h1D505>>,
    <<\h1D507, \h1D50A>>, <<\h1D50D, \h1D514>>, <<\h1D516, \h1D51C>>, <<\h1D51E, \h1D539>>,
    <<\h1D53B, \h1D53E>>, <<\h1D540, \h1D544>>, <<\h1D546, \h1D546>>, <<\h1D54A, \h1D550>>,
    <<\h1D552, \h1D6A5>>, <<\h1D6A8, \h1D6C0>>, <<\h1D6C2, \h1D6DA>>, <<\h1D6DC, \h1D6FA>>,
    <<\h1D6FC, \h1D714>>, <<\h1D716, \h1D734>>, <<\h1D736, \h1D74E>>, <<\h1D750, \h1D76E>>,
    <<\h1D770, \h1D788>>, <<\h1D78A, \h1D7A8>>, <<\h1D7AA, \h1D7C2>>, <<\h1D7C4, \h1D7CB>>,
    <<\h1DF00, \h1DF09>>, <<\h1DF0B, \h1DF1E>>, <<\h1DF25, \h1DF2A>>, <<\h1E900, \h1E943>>,
    <<\h1F130, \h1F149>>, <<\h1F150, \h1F169>>, <<\h1F170, \h1F189>> }


\* the code points with the property Case_Ignorable
CaseIgnorableRanges ==
  {
    <<\h0027, \h0027>>, <<\h002E, \h002E>>, <<\h003A, \h003A>>, <<\h005E, \h005E>>,
    <<\h0060, \h0060>>, <<\h00A8, \h00A8>>, <<\h00AD, \h00AD>>, <<\h00AF, \h00AF>>,
    <<\h00B4, \h00B4>>, <<\h00B7, \h00B8>>, <<\h02B0, \h036F>>, <<\h0374, \h0375>>,
    <<\h037A, \h037A>>, <<\h0384, \h0385>>, <<\h0387, \h0387>>, <<\h0483, \h0489>>,
    <<\h0559, \h0559>>, <<\h055F, \h055F>>, <<\h0591, \h05BD>>, <<\h05BF, \h05BF>>,
    <<\h05C1, \h05C2>>, <<\h05C4, \h05C5>>, <<\h05C7, \h05C7>>, <<\h05F4, \h05F4>>,
    <<\h0600, \h0605>>, <<\h0610, \h061A>>, <<\h061C, \h061C>>, <<\h0640, \h0640>>,
    <<\h064B, \h065F>>, <<\h0670, \h0670>>, <<\h06D6, \h06DD>>, <<\h06DF, \h06E8>>,
    <<\h06EA, \h06ED>>, <<\h070F, \h070F>>, <<\h0711, \h0711>>, <<\h0730, \h074A>>,
    <<\h07A6, \h07B0>>, <<\h07EB, \h07F5>>, <<\h07FA, \h07FA>>, <<\h07FD, \h07FD>>,
    <<\h0816, \h082D>>, <<\h0859, \h085B>>, <<\h0888, \h0888>>, <<\h0890, \h0891>>,
    <<\h0897, \h089F>>, <<\h08C9, \h0902>>, <<\h093A, \h093A>>, <<\h093C, \h093C>>,
    <<\h0941, \h0948>>, <<\h094D, \h094D>>, <<\h0951, \h0957>>, <<\h0962, \h0963>>,
    <<\h0971, \h0971>>, <<\h0981, \h0981>>, <<\h09BC, \h09BC>>, <<\h09C1, \h09C4>>,
    <<\h09CD, \h09CD>>, <<\h09E2, \h09E3>>, <<\h09FE, \h09FE>>, <<\h0A01, \h0A02>>,
    <<\h0A3C, \h0A3C>>, <<\h0A41, \h0A42>>, <<\h0A47, \h0A48>>, <<\h0A4B, \h0A4D>>,
    <<\h0A51, \h0A51>>, <<\h0A70, \h0A71>>, <<\h0A75, \h0A75>>, <<\h0A81, \h0A82>>,
    <<\h0ABC, \h0ABC>>, <<\h0AC1, \h0AC5>>, <<\h0AC7, \h0AC8>>, <<\h0ACD, \h0ACD>>,
    <<\h0AE2, \h0AE3>>, <<\h0AFA, \h0AFF>>, <<\h0B01, \h0B01>>, <<\h0B3C, \h0B3C>>,
    <<\h0B3F, \h0B3F>>, <<\h0B41, \h0B44>>, <<\h0B4D, \h0B4D>>, <<\h0B55, \h0B56>>,
    <<\h0B62, \h0B63>>, <<\h0B82, \h0B82>>, <<\h0BC0, \h0BC0>>, <<\h0BCD, \h0BCD>>,
    <<\h0C00, \h0C00>>, <<\h0C04, \h0C04>>, <<\h0C3C, \h0C3C>>, <<\h0C3E, \h0C40>>,
    <<\h0C46, \h0C48>>, <<\h0C4A, \h0C4D>>, <<\h0C55, \h0C56>>, <<\h0C62, \h0C63>>,
    <<\h0C81, \h0C81>>, <<\h0CBC, \h0CBC>>, <<\h0CBF, \h0CBF>>, <<\h0CC6, \h0CC6>>,
    <<\h0CCC, \h0CCD>>, <<\h0CE2, \h0CE3>>, <<\h0D00, \h0D01>>, <<\h0D3B, \h0D3C>>,
    <<\h0D41, \h0D44>>, <<\h0D4D, \h0D4D>>, <<\h0D62, \h0D63>>, <<\h0D81, \h0D81>>,
    <<\h0DCA, \h0DCA>>, <<\h0DD2, \h0DD4>>, <<\h0DD6, \h0DD6>>, <<\h0E31, \h0E31>>,
    <<\h0E34, \h0E3A>>, <<\h0E46, \h0E4E>>, <<\h0EB1, \h0EB1>>, <<\h0EB4, \h0EBC>>,
    <<\h0EC6, \h0EC6>>, <<\h0EC8, \h0ECE>>, <<\h0F18, \h0F19>>, <<\h0F35, \h0F35>>,
    <<\h0F37, \h0F37>>, <<\h0F39, \h0F39>>, <<\h0F71, \h0F7E>>, <<\h0F80, \h0F84>>,
    <<\h0F86, \h0F87>>, <<\h0F8D, \h0F97>>, <<\h0F99, \h0FBC>>, <<\h0FC6, \h0FC6>>,
    <<\h102D, \h1030>>, <<\h1032, \h1037>>, <<\h1039, \h103A>>, <<\h103D, \h103E>>,
    <<\h1058, \h1059>>, <<\h105E, \h1060>>, <<\h1071, \h1074>>, <<\h1082, \h1082>>,
    <<\h1085, \h1086>>, <<\h108D, \h108D>>, <<\h109D, \h109D>>, <<\h10FC, \h10FC>>,
    <<\h135D, \h135F>>, <<\h1712, \h1714>>, <<\h1732, \h1733>>, <<\h1752, \h1753>>,
    <<\h1772, \h1773>>, <<\h17B4, \h17B5>>, <<\h17B7, \h17BD>>, <<\h17C6, \h17C6>>,
    <<\h17C9, \h17D3>>, <<\h17D7, \h17D7>>, <<\h17DD, \h17DD>>, <<\h180B, \h180F>>,
    <<\h1843, \h1843>>, <<\h1885, \h1886>>, <<\h18A9, \h18A9>>, <<\h1920, \h1922>>,
    <<\h1927, \h1928>>, <<\h1932, \h1932>>, <<\h1939, \h193B>>, <<\h1A17, \h1A18>>,
    <<\h1A1B, \h1A1B>>, <<\h1A56, \h1A56>>, <<\h1A58, \h1A5E>>, <<\h1A60, \h1A60>>,
    <<\h1A62, \h1A62>>, <<\h1A65, \h1A6C>>, <<\h1A73, \h1A7C>>, <<\h1A7F, \h1A7F>>,
    <<\h1AA7, \h1AA7>>, <<\h1AB0, \h1ADD>>, <<\h1AE0, \h1AEB>>, <<\h1B00, \h1B03>>,
    <<\h1B34, \h1B34>>, <<\h1B36, \h1B3A>>, <<\h1B3C, \h1B3C>>, <<\h1B42, \h1B42>>,
    <<\h1B6B, \h1B73>>, <<\h1B80, \h1B81>>, <<\h1BA2, \h1BA5>>, <<\h1BA8, \h1BA9>>,
    <<\h1BAB, \h1BAD>>, <<\h1BE6, \h1BE6>>, <<\h1BE8, \h1BE9>>, <<\h1BED, \h1BED>>,
    <<\h1BEF, \h1BF1>>, <<\h1C2C, \h1C33>>, <<\h1C36, \h1C37>>, <<\h1C78, \h1C7D>>,
    <<\h1CD0, \h1CD2>>, <<\h1CD4, \h1CE0>>, <<\h1CE2, \h1CE8>>, <<\h1CED, \h1CED>>,
    <<\h1CF4, \h1CF4>>, <<\h1CF8, \h1CF9>>, <<\h1D2C, \h1D6A>>, <<\h1D78, \h1D78>>,
    <<\h1D9B, \h1DFF>>, <<\h1FBD, \h1FBD>>, <<\h1FBF, \h1FC1>>, <<\h1FCD, \h1FCF>>,
    <<\h1FDD, \h1FDF>>, <<\h1FED, \h1FEF>>, <<\h1FFD, \h1FFE>>, <<\h200B, \h200F>>,
    <<\h2018, \h2019>>, <<\h2024, \h2024>>, <<\h2027, \h2027>>, <<\h202A, \h202E>>,
    <<\h2060, \h2064>>, <<\h2066, \h206F>>, <<\h2071, \h2071>>, <<\h207F, \h207F>>,
    <<\h2090, \h209C>>, <<\h20D0, \h20F0>>, <<\h2C7C, \h2C7D>>, <<\h2CEF, \h2CF1>>,
    <<\h2D6F, \h2D6F>>, <<\h2D7F, \h2D7F>>, <<\h2DE0, \h2DFF>>, <<\h2E2F, \h2E2F>>,
    <<\h3005, \h3005>>, <<\h302A, \h302D>>, <<\h3031, \h3035>>, <<\h303B, \h303B>>,
    <<\h3099, \h309E>>, <<\h30FC, \h30FE>>, <<\hA015, \hA015>>, <<\hA4F8, \hA4FD>>,
    <<\hA60C, \hA60C>>, <<\hA66F, \hA672>>, <<\hA674, \hA67D>>, <<\hA67F, \hA67F>>,
    <<\hA69C, \hA69F>>, <<\hA6F0, \hA6F1>>, <<\hA700, \hA721>>, <<\hA770, \hA770>>,
    <<\hA788, \hA78A>>, <<\hA7F1, \hA7F4>>, <<\hA7F8, \hA7F9>>, <<\hA802, \hA802>>,
    <<\hA806, \hA806>>, <<\hA80B, \hA80B>>, <<\hA825, \hA826>>, <<\hA82C, \hA82C>>,
    <<\hA8C4, \hA8C5>>, <<\hA8E0, \hA8F1>>, <<\hA8FF, \hA8FF>>, <<\hA926, \hA92D>>,
    <<\hA947, \hA951>>, <<\hA980, \hA982>>, <<\hA9B3, \hA9B3>>, <<\hA9B6, \hA9B9>>,
    <<\hA9BC, \hA9BD>>, <<\hA9CF, \hA9CF>>, <<\hA9E5, \hA9E6>>, <<\hAA29, \hAA2E>>,
    <<\hAA31, \hAA32>>, <<\hAA35, \hAA36>>, <<\hAA43, \hAA43>>, <<\hAA4C, \hAA4C>>,
    <<\hAA70, \hAA70>>, <<\hAA7C, \hAA7C>>, <<\hAAB0, \hAAB0>>, <<\hAAB2, \hAAB4>>,
    <<\hAAB7, \hAAB8>>, <<\hAABE, \hAABF>>, <<\hAAC1, \hAAC1>>, <<\hAADD, \hAADD>>,
    <<\hAAEC, \hAAED>>, <<\hAAF3, \hAAF4>>, <<\hAAF6, \hAAF6>>, <<\hAB5B, \hAB5F>>,
    <<\hAB69, \hAB6B>>, <<\hABE5, \hABE5>>, <<\hABE8, \hABE8>>, <<\hABED, \hABED>>,
    <<\hFB1E, \hFB1E>>, <<\hFBB2, \hFBC2>>, <<\hFE00, \hFE0F>>, <<\hFE13, \hFE13>>,
    <<\hFE20, \hFE2F>>, <<\hFE52, \hFE52>>, <<\hFE55, \hFE55>>, <<\hFEFF, \hFEFF>>,
    <<\hFF07, \hFF07>>, <<\hFF0E, \hFF0E>>, <<\hFF1A, \hFF1A>>, <<\hFF3E, \hFF3E>>,
    <<\hFF40, \hFF40>>, <<\hFF70, \hFF70>>, <<\hFF9E, \hFF9F>>, <<\hFFE3, \hFFE3>>,
    <<\hFFF9, \hFFFB>>, <<\h101FD, \h101FD>>, <<\h102E0, \h102E0>>, <<\h10376, \h1037A>>,
    <<\h10780, \h10785>>, <<\h10787, \h107B0>>, <<\h107B2, \h107BA>>, <<\h10A01, \h10A03>>,
    <<\h10A05, \h10A06>>, <<\h10A0C, \h10A0F>>, <<\h10A38, \h10A3A>>, <<\h10A3F, \h10A3F>>,
    <<\h10AE5, \h10AE6>>, <<\h10D24, \h10D27>>, <<\h10D4E, \h10D4E>>, <<\h10D69, \h10D6D>>,
    <<\h10D6F, \h10D6F>>, <<\h10EAB, \h10EAC>>, <<\h10EC5, \h10EC5>>, <<\h10EFA, \h10EFF>>,
    <<\h10F46, \h10F50>>, <<\h10F82, \h10F85>>, <<\h11001, \h11001>>, <<\h11038, \h11046>>,
    <<\h11070, \h11070>>, <<\h11073, \h11074>>, <<\h1107F, \h11081>>, <<\h110B3, \h110B6>>,
    <<\h110B9, \h110BA>>, <<\h110BD, \h110BD>>, <<\h110C2, \h110C2>>, <<\h110CD, \h110CD>>,
    <<\h11100, \h11102>>, <<\h11127, \h1112B>>, <<\h1112D, \h11134>>, <<\h11173, \h11173>>,
    <<\h11180, \h11181>>, <<\h111B6, \h111BE>>, <<\h111C9, \h111CC>>, <<\h111CF, \h111CF>>,
    <<\h1122F, \h11231>>, <<\h11234, \h11234>>, <<\h11236, \h11237>>, <<\h1123E, \h1123E>>,
    <<\h11241, \h11241>>, <<\h112DF, \h112DF>>, <<\h112E3, \h112EA>>, <<\h11300, \h11301>>,
    <<\h1133B, \h1133C>>, <<\h11340, \h11340>>, <<\h11366, \h1136C>>, <<\h11370, \h11374>>,
    <<\h113BB, \h113C0>>, <<\h113CE, \h113CE>>, <<\h113D0, \h113D0>>, <<\h113D2, \h113D2>>,
    <<\h113E1, \h113E2>>, <<\h11438, \h1143F>>, <<\h11442, \h11444>>, <<\h11446, \h11446>>,
    <<\h1145E, \h1145E>>, <<\h114B3, \h114B8>>, <<\h114BA, \h114BA>>, <<\h114BF, \h114C0>>,
    <<\h114C2, \h114C3>>, <<\h115B2, \h115B5>>, <<\h115BC, \h115BD>>, <<\h115BF, \h115C0>>,
    <<\h115DC, \h115DD>>, <<\h11633, \h1163A>>, <<\h1163D, \h1163D>>, <<\h1163F, \h11640>>,
    <<\h116AB, \h116AB>>, <<\h116AD, \h116AD>>, <<\h116B0, \h116B5>>, <<\h116B7, \h116B7>>,
    <<\h1171D, \h1171D>>, <<\h1171F, \h1171F>>, <<\h11722, \h11725>>, <<\h11727, \h1172B>>,
    <<\h1182F, \h11837>>, <<\h11839, \h1183A>>, <<\h1193B, \h1193C>>, <<\h1193E, \h1193E>>,
    <<\h11943, \h11943>>, <<\h119D4, \h119D7>>, <<\h119DA, \h119DB>>, <<\h119E0, \h119E0>>,
    <<\h11A01, \h11A0A>>, <<\h11A33, \h11A38>>, <<\h11A3B, \h11A3E>>, <<\h11A47, \h11A47>>,
    <<\h11A51, \h11A56>>, <<\h11A59, \h11A5B>>, <<\h11A8A, \h11A96>>, <<\h11A98, \h11A99>>,
    <<\h11B60, \h11B60>>, <<\h11B62, \h11B64>>, <<\h11B66, \h11B66>>, <<\h11C30, \h11C36>>,
    <<\h11C38, \h11C3D>>, <<\h11C3F, \h11C3F>>, <<\h11C92, \h11CA7>>, <<\h11CAA, \h11CB0>>,
    <<\h11CB2, \h11CB3>>, <<\h11CB5, \h11CB6>>, <<\h11D31, \h11D36>>, <<\h11D3A, \h11D3A>>,
    <<\h11D3C, \h11D3D>>, <<\h11D3F, \h11D45>>, <<\h11D47, \h11D47>>, <<\h11D90, \h11D91>>,
    <<\h11D95, \h11D95>>, <<\h11D97, \h11D97>>, <<\h11DD9, \h11DD9>>, <<\h11EF3, \h11EF4>>,
    <<\h11F00, \h11F01>>, <<\h11F36, \h11F3A>>, <<\h11F40, \h11F40>>, <<\h11F42, \h11F42>>,
    <<\h11F5A, \h11F5A>>, <<\h13430, \h13440>>, <<\h13447, \h13455>>, <<\h1611E, \h16129>>,
    <<\h1612D, \h1612F>>, <<\h16AF0, \h16AF4>>, <<\h16B30, \h16B36>>, <<\h16B40, \h16B43>>,
    <<\h16D40, \h16D42>>, <<\h16D6B, \h16D6C>>, <<\h16F4F, \h16F4F>>, <<\h16F8F, \h16F9F>>,
    <<\h16FE0, \h16FE1>>, <<\h16FE3, \h16FE4>>, <<\h16FF2, \h16FF3>>, <<\h1AFF0, \h1AFF3>>,
    <<\h1AFF5, \h1AFFB>>, <<\h1AFFD, \h1AFFE>>, <<\h1BC9D, \h1BC9E>>, <<\h1BCA0, \h1BCA3>>,
    <<\h1CF00, \h1CF2D>>, <<\h1CF30, \h1CF46>>, <<\h1D167, \h1D169>>, <<\h1D173, \h1D182>>,
    <<\h1D185, \h1D18B>>, <<\h1D1AA, \h1D1AD>>, <<\h1D242, \h1D244>>, <<\h1DA00, \h1DA36>>,
    <<\h1DA3B, \h1DA6C>>, <<\h1DA75, \h1DA75>>, <<\h1DA84, \h1DA84>>, <<\h1DA9B, \h1DA9F>>,
    <<\h1DAA1, \h1DAAF>>, <<\h1E000, \h1E006>>, <<\h1E008, \h1E018>>, <<\h1E01B, \h1E021>>,
    <<\h1E023, \h1E024>>, <<\h1E026, \h1E02A>>, <<\h1E030, \h1E06D>>, <<\h1E08F, \h1E08F>>,
    <<\h1E130, \h1E13D>>, <<\h1E2AE, \h1E2AE>>, <<\h1E2EC, \h1E2EF>>, <<\h1E4EB, \h1E4EF>>,
    <<\h1E5EE, \h1E5EF>>, <<\h1E6E3, \h1E6E3>>, <<\h1E6E6, \h1E6E6>>, <<\h1E6EE, \h1E6EF>>,
    <<\h1E6F5, \h1E6F5>>, <<\h1E6FF, \h1E6FF>>, <<\h1E8D0, \h1E8D6>>, <<\h1E944, \h1E94B>>,
    <<\h1F3FB, \h1F3FF>>, <<\hE0001, \hE0001>>, <<\hE0020, \hE007F>>, <<\hE0100, \hE01EF>> }


CasedLetters == UNION {{Encode(n) : n \in r[1]..r[2]} : r \in CasedLetterRanges}
CaseIgnorable == UNION {{Encode(n) : n \in r[1]..r[2]} : r \in CaseIgnorableRanges}

\* a cased letter stands on that side of position i of s (before it when
\* step is -1, after it when step is 1) with only case-ignorable code points
\* in between
CasedLetterBeside(s, i, step) ==
  \E j \in 1..Len(s) :
    /\ (j - i) * step > 0
    /\ ~IsTrailAt(s, j)
    /\ CodePointAt(s, j) \in CasedLetters
    /\ \A k \in 1..Len(s) :
         ((k - i) * step > 0 /\ (j - k) * step > 0 /\ ~IsTrailAt(s, k))
           => CodePointAt(s, k) \in CaseIgnorable

\* the condition Final_Sigma of SpecialCasing.txt for the sigma at position i
IsFinalSigma(s, i) ==
  CasedLetterBeside(s, i, -1) /\ ~CasedLetterBeside(s, i, 1)

\* the concatenation of the strings ss[lo], ..., ss[hi]
RECURSIVE ConcatRange(_, _, _)
ConcatRange(ss, lo, hi) ==
  IF lo > hi THEN <<>>
  ELSE IF lo = hi THEN ss[lo]
  ELSE LET mid == (lo + hi) \div 2
       IN  ConcatRange(ss, lo, mid) \o ConcatRange(ss, mid + 1, hi)

\* the concatenation of a sequence of strings
Concat(ss) == ConcatRange(ss, 1, Len(ss))

\* String.prototype.toLowerCase: the lower case of each code point; a capital
\* sigma at the end of a word becomes the final sigma
toLowerCase(s) ==
  Concat([i \in 1..Len(s) |->
            IF IsTrailAt(s, i) THEN <<>>
            ELSE IF s[i] = "U+03A3" /\ IsFinalSigma(s, i) THEN <<"U+03C2">>
            ELSE IF CodePointAt(s, i) \in DOMAIN UpperToLower
              THEN UpperToLower[CodePointAt(s, i)]
            ELSE CodePointAt(s, i)])

\* WhiteSpace and LineTerminator of ECMA-262 (12.2, 12.3), which trim strips
\* and the \s of a regular expression matches: TAB, VT, FF, SP, NBSP, ZWNBSP,
\* the space separators (Zs), LF, CR, LS, PS
WhiteSpace ==
  {"\t", "U+000B", "\f", " ", "U+00A0", "U+FEFF",
   "U+1680", "U+2000", "U+2001", "U+2002", "U+2003", "U+2004", "U+2005",
   "U+2006", "U+2007", "U+2008", "U+2009", "U+200A", "U+202F", "U+205F",
   "U+3000",
   "\n", "\r", "U+2028", "U+2029"}

\* String.prototype.trimStart
trimStart(s) ==
  LET skip == Cardinality({n \in 1..Len(s) : \A j \in 1..n : s[j] \in WhiteSpace})
  IN  SubSeq(s, skip + 1, Len(s))

\* String.prototype.trimEnd
trimEnd(s) ==
  LET skip == Cardinality({n \in 1..Len(s) : \A j \in (Len(s) - n + 1)..Len(s) : s[j] \in WhiteSpace})
  IN  SubSeq(s, 1, Len(s) - skip)

\* String.prototype.trim
trim(s) == trimEnd(trimStart(s))

\* String.prototype.includes
includes(s, t) ==
  \E i \in 0..(Len(s) - Len(t)) : SubSeq(s, i + 1, i + Len(t)) = t

\* String.prototype.indexOf for a one-character needle (0-based, -1 when absent)
indexOf(s, c) ==
  IF \E i \in 1..Len(s) : s[i] = c
    THEN (CHOOSE i \in 1..Len(s) : s[i] = c /\ \A j \in 1..(i - 1) : s[j] # c) - 1
    ELSE -1

\* String.prototype.lastIndexOf for a one-character needle
lastIndexOf(s, c) ==
  IF \E i \in 1..Len(s) : s[i] = c
    THEN (CHOOSE i \in 1..Len(s) : s[i] = c /\ \A j \in (i + 1)..Len(s) : s[j] # c) - 1
    ELSE -1

\* String.prototype.substring(a, b): the arguments are clamped and swapped
substring(s, a, b) ==
  LET ca == IF a < 0 THEN 0 ELSE IF a > Len(s) THEN Len(s) ELSE a
      cb == IF b < 0 THEN 0 ELSE IF b > Len(s) THEN Len(s) ELSE b
      lo == IF ca <= cb THEN ca ELSE cb
      hi == IF ca <= cb THEN cb ELSE ca
  IN  SubSeq(s, lo + 1, hi)


IsDigit(c) == c \in {"0", "1", "2", "3", "4", "5", "6", "7", "8", "9"}
DigitValue(c) ==
  CASE c = "0" -> 0 [] c = "1" -> 1 [] c = "2" -> 2 [] c = "3" -> 3 [] c = "4" -> 4
    [] c = "5" -> 5 [] c = "6" -> 6 [] c = "7" -> 7 [] c = "8" -> 8 [] c = "9" -> 9

\* s[i] (1-based), or the empty string beyond the end of s
At(s, i) == IF i \in 1..Len(s) THEN s[i] ELSE ""

\* the length of the run of decimal digits of s that begins at position i
DigitRun(s, i) ==
  Cardinality({n \in 1..(Len(s) - i + 1) : \A j \in i..(i + n - 1) : IsDigit(s[j])})

\* a < b for two numerals without leading zeros
DigitsLess(a, b) ==
  \/ Len(a) < Len(b)
  \/ /\ Len(a) = Len(b)
     /\ \E i \in 1..Len(a) :
          /\ DigitValue(a[i]) < DigitValue(b[i])
          /\ \A j \in 1..(i - 1) : a[j] = b[j]

\* the decimal numeral of a natural number
RECURSIVE Decimal(_)
Decimal(n) ==
  LET last == CASE n % 10 = 0 -> "0" [] n % 10 = 1 -> "1" [] n % 10 = 2 -> "2"
                [] n % 10 = 3 -> "3" [] n % 10 = 4 -> "4" [] n % 10 = 5 -> "5"
                [] n % 10 = 6 -> "6" [] n % 10 = 7 -> "7" [] n % 10 = 8 -> "8"
                [] n % 10 = 9 -> "9"
  IN  IF n < 10 THEN <<last>> ELSE Append(Decimal(n \div 10), last)

(***************************************************************************)
(* JSON values.  An object's members are a sequence of <<key, value>> in   *)
(* insertion order; an array's are <<index, value>>.                        *)
(***************************************************************************)
JStr(s) == [type |-> "string", str |-> s, members |-> <<>>]
\* a number, held as the text Number::toString gives it
JNum(digits) == [type |-> "number", str |-> digits, members |-> <<>>]
JBool(b) ==
  [type |-> "boolean",
   str |-> IF b THEN <<"t","r","u","e">> ELSE <<"f","a","l","s","e">>,
   members |-> <<>>]
JNull == [type |-> "null", str |-> <<>>, members |-> <<>>]
JObj(m) == [type |-> "object", str |-> <<>>, members |-> m]
JArr(vs) == [type |-> "array", str |-> <<>>, members |-> [i \in 1..Len(vs) |-> <<i, vs[i]>>]]

Keys(o) == {o.members[i][1] : i \in 1..Len(o.members)}
Has(o, k) == k \in Keys(o)
\* o[k] for a key the object has
Get(o, k) == o.members[CHOOSE i \in 1..Len(o.members) : o.members[i][1] = k][2]

\* ToBoolean(v)
Truthy(v) ==
  CASE v.type = "string" -> v.str # <<>>
    [] v.type = "number" -> v.str # <<"0">>
    [] v.type = "boolean" -> v.str = <<"t","r","u","e">>
    [] v.type = "null" -> FALSE
    [] OTHER -> TRUE

\* an array index: the canonical numeral of an integer below 2^32 - 1
MaxArrayIndex == <<"4","2","9","4","9","6","7","2","9","4">>
IsArrayIndex(k) ==
  /\ k # <<>>
  /\ \A i \in 1..Len(k) : IsDigit(k[i])
  /\ Len(k) = 1 \/ k[1] # "0"
  /\ ~DigitsLess(MaxArrayIndex, k)

\* o[k] = v: replaces the value in place, or adds the key; the keys of an
\* object are its array indices in ascending order, then its other keys in
\* the order of their creation (OrdinaryOwnPropertyKeys)
SetKey(o, k, v) ==
  IF Has(o, k)
    THEN JObj([i \in 1..Len(o.members) |->
                 IF o.members[i][1] = k THEN <<k, v>> ELSE o.members[i]])
    ELSE LET before ==
               IF IsArrayIndex(k)
                 THEN Cardinality({i \in 1..Len(o.members) :
                                     /\ IsArrayIndex(o.members[i][1])
                                     /\ DigitsLess(o.members[i][1], k)})
                 ELSE Len(o.members)
         IN  JObj(SubSeq(o.members, 1, before) \o << <<k, v>> >>
                    \o SubSeq(o.members, before + 1, Len(o.members)))
\* the object without key k
DropKey(o, k) == JObj(SelectSeq(o.members, LAMBDA m : m[1] # k))

(***************************************************************************)
(* Property names of the schemas.                                          *)
(***************************************************************************)
K_ItemType == <<"I","t","e","m","T","y","p","e">>
K_Name == <<"N","a","m","e">>
K_AlternateNames == <<"A","l","t","e","r","n","a","t","e","N","a","m","e","s">>
K_Description == <<"D","e","s","c","r","i","p","t","i","o","n">>
K_YinYangClassification == <<"Y","i","n","Y","a","n","g","C","l","a","s","s","i","f","i","c","a","t","i","o","n">>
K_FiveElements == <<"F","i","v","e","E","l","e","m","e","n","t","s">>
K_Category == <<"C","a","t","e","g","o","r","y">>
K_FlavorProfile == <<"F","l","a","v","o","r","P","r","o","f","i","l","e">>
K_MedicinalProperties == <<"M","e","d","i","c","i","n","a","l","P","r","o","p","e","r","t","i","e","s">>
K_CommonCulinaryUses == <<"C","o","m","m","o","n","C","u","l","i","n","a","r","y","U","s","e","s">>
K_OriginRegion == <<"O","r","i","g","i","n","R","e","g","i","o","n">>
K_SeasonalAvailability == <<"S","e","a","s","o","n","a","l","A","v","a","i","l","a","b","i","l","i","t","y">>
K_NutritionalInformation == <<"N","u","t","r","i","t","i","o","n","a","l","I","n","f","o","r","m","a","t","i","o","n">>
K_AllergenInformation == <<"A","l","l","e","r","g","e","n","I","n","f","o","r","m","a","t","i","o","n">>
K_PreparationTips == <<"P","r","e","p","a","r","a","t","i","o","n","T","i","p","s">>
K_DietaryRestrictions == <<"D","i","e","t","a","r","y","R","e","s","t","r","i","c","t","i","o","n","s">>
K_SubstituteIngredients == <<"S","u","b","s","t","i","t","u","t","e","I","n","g","r","e","d","i","e","n","t","s">>
K_StorageMethods == <<"S","t","o","r","a","g","e","M","e","t","h","o","d","s">>
K_CulinaryTechniques == <<"C","u","l","i","n","a","r","y","T","e","c","h","n","i","q","u","e","s">>
K_CulturalSignificance == <<"C","u","l","t","u","r","a","l","S","i","g","n","i","f","i","c","a","n","c","e">>
K_HistoricalUsage == <<"H","i","s","t","o","r","i","c","a","l","U","s","a","g","e">>
K_EnvironmentalImpact == <<"E","n","v","i","r","o","n","m","e","n","t","a","l","I","m","p","a","c","t">>
K_TCMInformation == <<"T","C","M","I","n","f","o","r","m","a","t","i","o","n">>
K_Type == <<"T","y","p","e">>
K_Functions == <<"F","u","n","c","t","i","o","n","s">>
K_Sources == <<"S","o","u","r","c","e","s">>
K_RecommendedDailyIntake == <<"R","e","c","o","m","m","e","n","d","e","d","D","a","i","l","y","I","n","t","a","k","e">>
K_DeficiencySymptoms == <<"D","e","f","i","c","i","e","n","c","y","S","y","m","p","t","o","m","s">>
K_ExcessSymptoms == <<"E","x","c","e","s","s","S","y","m","p","t","o","m","s">>
K_TopFoodSources == <<"T","o","p","F","o","o","d","S","o","u","r","c","e","s">>
K_ItemID == <<"I","t","e","m","I","D">>
K_DateAdded == <<"D","a","t","e","A","d","d","e","d">>
K_NameLowercase == <<"N","a","m","e","L","o","w","e","r","c","a","s","e">>
K_English == <<"E","n","g","l","i","s","h">>
K_Chinese == <<"C","h","i","n","e","s","e">>
K_Spanish == <<"S","p","a","n","i","s","h">>
K_HerbalFormulations == <<"H","e","r","b","a","l","F","o","r","m","u","l","a","t","i","o","n","s">>
K_Meridians == <<"M","e","r","i","d","i","a","n","s">>

(***************************************************************************)
(* The two schemas, as Ajv evaluates them.                                 *)
(***************************************************************************)
IsString(v) == v.type = "string"
IsStringArray(v) ==
  v.type = "array" /\ \A i \in 1..Len(v.members) : IsString(v.members[i][2])
IsOpenObject(v) == v.type = "object"
IsEnum(v, values) == v.type = "string" /\ v.str \in values

\* { type: object, properties: {English, Chinese, Spanish}, required: [English],
\*   additionalProperties: false }
IsMultilingual(v) ==
  /\ v.type = "object"
  /\ K_English \in Keys(v)
  /\ Keys(v) \subseteq {K_English, K_Chinese, K_Spanish}
  /\ \A i \in 1..Len(v.members) : IsString(v.members[i][2])

\* oneOf: [ {type: string}, multilingual object ]: exactly one branch matches
IsNameOrDescription(v) == (IsString(v) /\ ~IsMultilingual(v)) \/ (~IsString(v) /\ IsMultilingual(v))

IsTCMInformation(v) ==
  /\ v.type = "object"
  /\ K_Functions \in Keys(v)
  /\ Keys(v) \subseteq {K_Functions, K_HerbalFormulations, K_Meridians}
  /\ \A i \in 1..Len(v.members) : IsStringArray(v.members[i][2])

ItemTypeEnum == {<<"i","n","g","r","e","d","i","e","n","t">>, <<"n","u","t","r","i","e","n","t">>}
YinYangEnum ==
  {<<"Y","i","n"," ","(","C","o","l","d",")">>, <<"Y","i","n"," ","(","C","o","o","l",")">>, <<"N","e","u","t","r","a","l">>, <<"Y","a","n","g"," ","(","W","a","r","m",")">>, <<"Y","a","n","g"," ","(","H","o","t",")">>}
TypeEnum == {<<"v","i","t","a","m","i","n">>, <<"m","i","n","e","r","a","l">>, <<"o","t","h","e","r">>}

StringProperties ==
  {K_FiveElements, K_Category, K_OriginRegion, K_SeasonalAvailability,
   K_AllergenInformation, K_RecommendedDailyIntake}
StringArrayProperties ==
  {K_AlternateNames, K_FlavorProfile, K_MedicinalProperties, K_CommonCulinaryUses,
   K_PreparationTips, K_DietaryRestrictions, K_SubstituteIngredients,
   K_CulinaryTechniques, K_Functions, K_Sources, K_DeficiencySymptoms,
   K_ExcessSymptoms, K_TopFoodSources}
OpenObjectProperties ==
  {K_NutritionalInformation, K_StorageMethods, K_CulturalSignificance,
   K_HistoricalUsage, K_EnvironmentalImpact}

\* inputSchema.properties
inputProperties ==
  {K_ItemType, K_Name, K_Description, K_YinYangClassification, K_TCMInformation, K_Type}
    \cup StringProperties \cup StringArrayProperties \cup OpenObjectProperties

\* the schema of one property of inputSchema applied to a value
inputPropertyValid(k, v) ==
  CASE k = K_ItemType -> IsEnum(v, ItemTypeEnum)
    [] k \in {K_Name, K_Description} -> IsNameOrDescription(v)
    [] k = K_YinYangClassification -> IsEnum(v, YinYangEnum)
    [] k = K_Type -> IsEnum(v, TypeEnum)
    [] k = K_TCMInformation -> IsTCMInformation(v)
    [] k \in StringProperties -> IsString(v)
    [] k \in StringArrayProperties -> IsStringArray(v)
    [] k \in OpenObjectProperties -> IsOpenObject(v)
    [] OTHER -> TRUE

\* a validateInput compiled from a schema without additionalProperties: false
validateInput_Open(data) ==
  /\ data.type = "object"
  /\ {K_ItemType, K_Name} \subseteq Keys(data)
  /\ \A i \in 1..Len(data.members) :
       inputPropertyValid(data.members[i][1], data.members[i][2])

\* ajv.compile(inputSchema)
validateInput(data) ==
  /\ data.type = "object"
  /\ {K_ItemType, K_Name} \subseteq Keys(data)
  /\ Keys(data) \subseteq inputProperties
  /\ \A i \in 1..Len(data.members) :
       inputPropertyValid(data.members[i][1], data.members[i][2])

TwoDigits(s, i) == DigitValue(s[i]) * 10 + DigitValue(s[i + 1])
DaysInMonth(y, m) ==
  IF m = 2 THEN (IF y % 4 = 0 /\ (y % 100 # 0 \/ y % 400 = 0) THEN 29 ELSE 28)
  ELSE IF m \in {4, 6, 9, 11} THEN 30 ELSE 31

\* The formats are those of ajv-formats 2.x in its default (full) mode, which
\* addFormats(ajv) of line 11 installs.

\* date: /^(\d\d\d\d)-(\d\d)-(\d\d)$/ with a month of the year and a day of
\* the month
IsDate(d) ==
  /\ Len(d) = 10
  /\ \A i \in {1, 2, 3, 4, 6, 7, 9, 10} : IsDigit(d[i])
  /\ d[5] = "-" /\ d[8] = "-"
  /\ LET year == TwoDigits(d, 1) * 100 + TwoDigits(d, 3)
         month == TwoDigits(d, 6)
         day == TwoDigits(d, 9)
     IN  month \in 1..12 /\ day \in 1..DaysInMonth(year, month)

\* the zone designator of a time, (z|[+-]\d\d(?::?\d\d)?) with flag i: the
\* digits of an offset are not range-checked
IsTimeZone(z) ==
  \/ z \in {<<"Z">>, <<"z">>}
  \/ /\ Len(z) \in {3, 5, 6}
     /\ z[1] \in {"+", "-"}
     /\ IsDigit(z[2]) /\ IsDigit(z[3])
     /\ Len(z) = 5 => IsDigit(z[4]) /\ IsDigit(z[5])
     /\ Len(z) = 6 => z[4] = ":" /\ IsDigit(z[5]) /\ IsDigit(z[6])

\* time: /^(\d\d):(\d\d):(\d\d)(\.\d+)?(z|[+-]\d\d(?::?\d\d)?)?$/i, an hour,
\* minute and second of the day or the leap second 23:59:60, and a zone when
\* withTimeZone
IsTime(t, withTimeZone) ==
  /\ Len(t) >= 8
  /\ \A i \in {1, 2, 4, 5, 7, 8} : IsDigit(t[i])
  /\ t[3] = ":" /\ t[6] = ":"
  /\ LET hour == TwoDigits(t, 1)
         minute == TwoDigits(t, 4)
         second == TwoDigits(t, 7)
         rest == SubSeq(t, 9, Len(t))
         fraction ==
           IF rest # <<>> /\ rest[1] = "."
             THEN 1 + Cardinality({n \in 1..(Len(rest) - 1) :
                                     \A j \in 2..(n + 1) : IsDigit(rest[j])})
             ELSE 0
         timeZone == SubSeq(rest, fraction + 1, Len(rest))
     IN  /\ fraction # 1
         /\ timeZone = <<>> \/ IsTimeZone(timeZone)
         /\ \/ hour <= 23 /\ minute <= 59 /\ second <= 59
            \/ hour = 23 /\ minute = 59 /\ second = 60
         /\ withTimeZone => timeZone # <<>>

\* DATE_TIME_SEPARATOR, /t|\s/i
DateTimeSeparator == {"t", "T"} \cup WhiteSpace

\* format: "date-time": str.split(DATE_TIME_SEPARATOR) has two parts, a date
\* and a time with a zone
IsDateTime(s) ==
  LET separators == {i \in 1..Len(s) : s[i] \in DateTimeSeparator}
  IN  /\ Cardinality(separators) = 1
      /\ LET at == CHOOSE i \in separators : TRUE
         IN  /\ IsDate(SubSeq(s, 1, at - 1))
             /\ IsTime(SubSeq(s, at + 1, Len(s)), TRUE)

\* storageSchema.properties
storageProperties == inputProperties \cup {K_ItemID, K_DateAdded, K_NameLowercase}

storagePropertyValid(k, v) ==
  CASE k \in {K_ItemID, K_NameLowercase} -> IsString(v)
    [] k = K_DateAdded -> IsString(v) /\ IsDateTime(v.str)
    [] OTHER -> inputPropertyValid(k, v)

\* ajv.compile(storageSchema)
validateStorage(data) ==
  /\ data.type = "object"
  /\ {K_ItemType, K_Name, K_ItemID, K_DateAdded, K_NameLowercase} \subseteq Keys(data)
  /\ Keys(data) \subseteq storageProperties
  /\ \A i \in 1..Len(data.members) :
       storagePropertyValid(data.members[i][1], data.members[i][2])

(***************************************************************************)
(* Helper functions of the handler.                                        *)
(***************************************************************************)

normalizeName(name) == toLowerCase(trim(name))

nonConsumableCategories ==
  << <<"p","o","i","s","o","n">>,
     <<"c","h","e","m","i","c","a","l">>,
     <<"n","o","n","-","f","o","o","d">>,
     <<"c","l","e","a","n","i","n","g"," ","a","g","e","n","t">>,
     <<"t","o","x","i","c"," ","s","u","b","s","t","a","n","c","e">>,
     <<"m","e","t","a","l">>,
     <<"p","l","a","s","t","i","c">>,
     <<"d","r","u","g">>,
     <<"m","e","d","i","c","i","n","e">>,
     <<"i","n","s","e","c","t","i","c","i","d","e">>,
     <<"h","e","r","b","i","c","i","d","e">>,
     <<"f","u","n","g","i","c","i","d","e">>,
     <<"f","e","r","t","i","l","i","z","e","r">>,
     <<"p","e","t","r","o","l","e","u","m">>,
     <<"n","o","n","-","e","d","i","b","l","e">>,
     <<"r","a","d","i","o","a","c","t","i","v","e">>,
     <<"s","y","n","t","h","e","t","i","c"," ","c","o","m","p","o","u","n","d">>,
     <<"m","a","t","e","r","i","a","l">>,
     <<"a","l","l","o","y">>,
     <<"p","a","i","n","t">>,
     <<"s","o","l","v","e","n","t">>,
     <<"d","e","t","e","r","g","e","n","t">>,
     <<"a","d","h","e","s","i","v","e">>,
     <<"l","u","b","r","i","c","a","n","t">>,
     <<"p","e","s","t","i","c","i","d","e">>,
     <<"d","i","s","i","n","f","e","c","t","a","n","t">>,
     <<"e","x","p","l","o","s","i","v","e">>,
     <<"g","a","s">>,
     <<"e","l","e","m","e","n","t">>,
     <<"r","o","c","k">>,
     <<"g","e","m","s","t","o","n","e">>,
     <<"c","r","y","s","t","a","l">> >>

\* lines 141-181 throw a TypeError: the Category of an ingredient is truthy
\* and not a string, so category.toLowerCase is not a function
isConsumableIngredientThrows(data) ==
  /\ Has(data, K_ItemType)
  /\ Get(data, K_ItemType) = JStr(<<"i","n","g","r","e","d","i","e","n","t">>)
  /\ Has(data, K_Category)
  /\ Truthy(Get(data, K_Category))
  /\ Get(data, K_Category).type # "string"

\* isConsumableIngredient(itemData), where it returns; category.toLowerCase()
\* has the same value at every call of the callback
isConsumableIngredient(data) ==
  IF ~Has(data, K_ItemType) \/ Get(data, K_ItemType) # JStr(<<"i","n","g","r","e","d","i","e","n","t">>)
    THEN TRUE
    ELSE LET category == IF Has(data, K_Category) /\ Truthy(Get(data, K_Category))
                           THEN Get(data, K_Category).str
                           ELSE <<>>
             lowerCategory == toLowerCase(category)
         IN  ~\E i \in 1..Len(nonConsumableCategories) :
                includes(lowerCategory, nonConsumableCategories[i])

(***************************************************************************)
(* Clock, identifiers, fingerprints.                                       *)
(***************************************************************************)
CACHE_TTL == 60 * 60 * 1000
OPENAI_TIMEOUT == 10000

MsPerDay == 24 * 60 * 60 * 1000
DigitChars == <<"0", "1", "2", "3", "4", "5", "6", "7", "8", "9">>
Pad2(n) == <<DigitChars[((n \div 10) % 10) + 1], DigitChars[(n % 10) + 1]>>
Pad3(n) == <<DigitChars[((n \div 100) % 10) + 1]>> \o Pad2(n % 100)

\* a toISOString that leaves out the zone designator
toISOString_NoZone(ms) ==
  <<"1","9","7","0","-","0","1","-">> \o Pad2(1 + (ms \div MsPerDay)) \o <<"T">>
    \o Pad2((ms % MsPerDay) \div 3600000) \o <<":">>
    \o Pad2((ms % 3600000) \div 60000) \o <<":">>
    \o Pad2((ms % 60000) \div 1000) \o <<".">>
    \o Pad3(ms % 1000)

\* new Date(ms).toISOString(), for an instant of January 1970
toISOString(ms) ==
  <<"1","9","7","0","-","0","1","-">> \o Pad2(1 + (ms \div MsPerDay)) \o <<"T">>
    \o Pad2((ms % MsPerDay) \div 3600000) \o <<":">>
    \o Pad2((ms % 3600000) \div 60000) \o <<":">>
    \o Pad2((ms % 60000) \div 1000) \o <<".">>
    \o Pad3(ms % 1000) \o <<"Z">>

\* the values randomUUID() may return
UUID(i) == <<"u","u","i","d","-">> \o <<DigitChars[(i % 10) + 1]>>

\* a surrogate code unit at position i of s that is not part of a pair
IsLoneSurrogateAt(s, i) ==
  \/ s[i] \in HighSurrogates /\ ~IsPairAt(s, i)
  \/ s[i] \in LowSurrogates /\ ~IsTrailAt(s, i)

\* the string that the UTF-8 encoding of s decodes to: a surrogate without
\* its partner is encoded as U+FFFD
toWellFormed(s) ==
  [i \in 1..Len(s) |-> IF IsLoneSurrogateAt(s, i) THEN "U+FFFD" ELSE s[i]]

\* createHash("sha256").update(s).digest("hex"): the hash of the UTF-8
\* encoding of s, taken to be collision-free on encodings
sha256(s) == <<"sha256", toWellFormed(s)>>

(***************************************************************************)
(* JSON text.  Serialize is JSON.stringify and JSONParse is JSON.parse.    *)
(***************************************************************************)
\* the code units QuoteJSONString escapes, with their escape sequences
EscapeSequences ==
  {
    <<"U+0000", <<"\\", "u", "0", "0", "0", "0">>>>, <<"U+0001", <<"\\", "u", "0", "0", "0", "1">>>>, <<"U+0002", <<"\\", "u", "0", "0", "0", "2">>>>,
    <<"U+0003", <<"\\", "u", "0", "0", "0", "3">>>>, <<"U+0004", <<"\\", "u", "0", "0", "0", "4">>>>, <<"U+0005", <<"\\", "u", "0", "0", "0", "5">>>>,
    <<"U+0006", <<"\\", "u", "0", "0", "0", "6">>>>, <<"U+0007", <<"\\", "u", "0", "0", "0", "7">>>>, <<"U+0008", <<"\\", "b">>>>,
    <<"\t", <<"\\", "t">>>>, <<"\n", <<"\\", "n">>>>, <<"U+000B", <<"\\", "u", "0", "0", "0", "b">>>>,
    <<"\f", <<"\\", "f">>>>, <<"\r", <<"\\", "r">>>>, <<"U+000E", <<"\\", "u", "0", "0", "0", "e">>>>,
    <<"U+000F", <<"\\", "u", "0", "0", "0", "f">>>>, <<"U+0010", <<"\\", "u", "0", "0", "1", "0">>>>, <<"U+0011", <<"\\", "u", "0", "0", "1", "1">>>>,
    <<"U+0012", <<"\\", "u", "0", "0", "1", "2">>>>, <<"U+0013", <<"\\", "u", "0", "0", "1", "3">>>>, <<"U+0014", <<"\\", "u", "0", "0", "1", "4">>>>,
    <<"U+0015", <<"\\", "u", "0", "0", "1", "5">>>>, <<"U+0016", <<"\\", "u", "0", "0", "1", "6">>>>, <<"U+0017", <<"\\", "u", "0", "0", "1", "7">>>>,
    <<"U+0018", <<"\\", "u", "0", "0", "1", "8">>>>, <<"U+0019", <<"\\", "u", "0", "0", "1", "9">>>>, <<"U+001A", <<"\\", "u", "0", "0", "1", "a">>>>,
    <<"U+001B", <<"\\", "u", "0", "0", "1", "b">>>>, <<"U+001C", <<"\\", "u", "0", "0", "1", "c">>>>, <<"U+001D", <<"\\", "u", "0", "0", "1", "d">>>>,
    <<"U+001E", <<"\\", "u", "0", "0", "1", "e">>>>, <<"U+001F", <<"\\", "u", "0", "0", "1", "f">>>>,
    <<"\"", <<"\\", "\"">>>>, <<"\\", <<"\\", "\\">>>> }

JSONEscape ==
  [c \in {p[1] : p \in EscapeSequences} |-> (CHOOSE p \in EscapeSequences : p[1] = c)[2]]

\* the code units below U+0020, which a JSON string may not hold unescaped
ControlUnits == DOMAIN JSONEscape \ {"\"", "\\"}

LowerHexDigits == <<"a","b","c","d","e","f">>
LowerHex(d) == IF d < 10 THEN DigitChars[d + 1] ELSE LowerHexDigits[d - 9]

\* the escape sequences of the surrogate code units: UnicodeEscape writes
\* the hexadecimal digits in lower case
SurrogateEscapes ==
  {<<UnitOf(n),
     <<"\\", "u", "d", LowerHex((n \div 256) % 16), LowerHex((n \div 16) % 16),
       LowerHex(n % 16)>>>> :
   n \in \hD800..\hDFFF}

SurrogateEscape ==
  [c \in {p[1] : p \in SurrogateEscapes} |-> (CHOOSE p \in SurrogateEscapes : p[1] = c)[2]]

\* QuoteJSONString: a surrogate code unit without its partner is escaped
QuoteJSONString(s) ==
  <<"\"">>
    \o Concat([i \in 1..Len(s) |->
                 IF s[i] \in DOMAIN JSONEscape THEN JSONEscape[s[i]]
                 ELSE IF IsLoneSurrogateAt(s, i) THEN SurrogateEscape[s[i]]
                 ELSE <<s[i]>>])
    \o <<"\"">>

\* JSON.stringify(v): a value as compact JSON text; a number that is not
\* finite is written null
RECURSIVE Serialize(_)
Serialize(v) ==
  LET member(i) ==
        (IF v.type = "object" THEN QuoteJSONString(v.members[i][1]) \o <<":">> ELSE <<>>)
          \o Serialize(v.members[i][2])
          \o (IF i < Len(v.members) THEN <<",">> ELSE <<>>)
      members == Concat([i \in 1..Len(v.members) |-> member(i)])
  IN  CASE v.type = "string" -> QuoteJSONString(v.str)
        [] v.type = "number" ->
             IF v.str \in {<<"I","n","f","i","n","i","t","y">>,
                           <<"-","I","n","f","i","n","i","t","y">>}
               THEN <<"n","u","l","l">>
               ELSE v.str
        [] v.type = "boolean" -> v.str
        [] v.type = "null" -> <<"n","u","l","l">>
        [] v.type = "object" -> <<"{">> \o members \o <<"}">>
        [] v.type = "array" -> <<"[">> \o members \o <<"]">>

IsHexDigit(c) ==
  \/ \E i \in 1..16 : HexDigits[i] = c
  \/ \E i \in 1..6 : LowerHexDigits[i] = c
HexValue(c) ==
  IF \E i \in 1..16 : HexDigits[i] = c
    THEN (CHOOSE i \in 1..16 : HexDigits[i] = c) - 1
    ELSE (CHOOSE i \in 1..6 : LowerHexDigits[i] = c) + 9

\* the code unit a \uXXXX escape with the hexadecimal digits h denotes
CodeUnit(h) ==
  UnitOf(HexValue(h[1]) * 4096 + HexValue(h[2]) * 256 + HexValue(h[3]) * 16
           + HexValue(h[4]))

\* the one-character escapes of a JSON string
SimpleEscapes ==
  [c \in {"\"", "\\", "/", "b", "f", "n", "r", "t"} |->
     CASE c = "b" -> "U+0008" [] c = "f" -> "\f" [] c = "n" -> "\n"
       [] c = "r" -> "\r" [] c = "t" -> "\t" [] OTHER -> c]

\* the result of a parsing step: the value read and the position after it
ParseFailure == [ok |-> FALSE, value |-> JNull, next |-> 0]
Parsed(v, n) == [ok |-> TRUE, value |-> v, next |-> n]

\* JSON white space is space, TAB, LF and CR only
JSONWhiteSpace == {" ", "\t", "\n", "\r"}
SkipWhiteSpace(t, i) ==
  i + Cardinality({n \in 1..(Len(t) - i + 1) :
                     \A j \in i..(i + n - 1) : t[j] \in JSONWhiteSpace})

\* the characters of a JSON string from position i to its closing quote
RECURSIVE ParseChars(_, _, _)
ParseChars(t, i, acc) ==
  IF i > Len(t) THEN ParseFailure
  ELSE IF t[i] = "\"" THEN Parsed(JStr(acc), i + 1)
  ELSE IF t[i] \in ControlUnits THEN ParseFailure
  ELSE IF t[i] # "\\" THEN ParseChars(t, i + 1, Append(acc, t[i]))
  ELSE IF At(t, i + 1) \in DOMAIN SimpleEscapes
    THEN ParseChars(t, i + 2, Append(acc, SimpleEscapes[t[i + 1]]))
  ELSE IF At(t, i + 1) = "u" /\ i + 5 <= Len(t)
            /\ \A j \in (i + 2)..(i + 5) : IsHexDigit(t[j])
    THEN ParseChars(t, i + 6, Append(acc, CodeUnit(SubSeq(t, i + 2, i + 5))))
  ELSE ParseFailure

\* the element of a set of one element; {e : x \in {v}} is e with x the
\* value of v, computed once
TheOne(S) == CHOOSE x \in S : TRUE

(***************************************************************************)
(* Natural numbers of any size, for the arithmetic that rounds a numeral   *)
(* to a double: a number is the sequence of its decimal digits from the    *)
(* units up, without zeros at the top; zero is the empty sequence.         *)
(***************************************************************************)
BigDigit(a, i) == IF 1 <= i /\ i <= Len(a) THEN a[i] ELSE 0

\* the highest position of lo..hi at which a has a digit other than zero,
\* or 0
RECURSIVE TopDigit(_, _, _)
TopDigit(a, lo, hi) ==
  IF lo > hi THEN 0
  ELSE IF lo = hi THEN (IF a[lo] # 0 THEN lo ELSE 0)
  ELSE IF TopDigit(a, ((lo + hi) \div 2) + 1, hi) # 0
    THEN TopDigit(a, ((lo + hi) \div 2) + 1, hi)
  ELSE TopDigit(a, lo, (lo + hi) \div 2)

\* the digits of places lo..hi of the number with c[i] units at place i,
\* given the carry into place lo, followed by the carry out of place hi
RECURSIVE CarryRange(_, _, _, _)
CarryRange(c, lo, hi, carry) ==
  IF lo = hi
    THEN TheOne({<<v % 10, v \div 10>> : v \in {c[lo] + carry}})
    ELSE TheOne({SubSeq(low, 1, Len(low) - 1)
                   \o CarryRange(c, ((lo + hi) \div 2) + 1, hi, low[Len(low)]) :
                 low \in {CarryRange(c, lo, (lo + hi) \div 2, carry)}})

\* the number with c[i] units at place i, for i in 1..n
BigDigits(c, n) ==
  IF n = 0 THEN <<>>
  ELSE TheOne({SubSeq(r, 1, TopDigit(r, 1, Len(r))) : r \in {CarryRange(c, 1, n, 0)}})

BigAdd(x, y) ==
  TheOne({BigDigits([i \in 1..(IF Len(a) > Len(b) THEN Len(a) ELSE Len(b)) |->
                       BigDigit(a, i) + BigDigit(b, i)],
                    IF Len(a) > Len(b) THEN Len(a) ELSE Len(b)) :
          a \in {x}, b \in {y}})

\* x - y, where y is at most x
BigSub(x, y) ==
  TheOne({BigDigits([i \in 1..Len(a) |-> a[i] - BigDigit(b, i)], Len(a)) :
          a \in {x}, b \in {y}})

\* the sum of a[i] * b[k + 1 - i] for i in lo..hi
RECURSIVE Convolution(_, _, _, _, _)
Convolution(a, b, k, lo, hi) ==
  IF lo > hi THEN 0
  ELSE IF lo = hi THEN a[lo] * b[k + 1 - lo]
  ELSE Convolution(a, b, k, lo, (lo + hi) \div 2)
         + Convolution(a, b, k, ((lo + hi) \div 2) + 1, hi)

BigMul(x, y) ==
  TheOne({BigDigits([k \in 1..(Len(a) + Len(b)) |->
                       Convolution(a, b, k,
                                   IF k > Len(b) THEN k - Len(b) + 1 ELSE 1,
                                   IF k < Len(a) THEN k ELSE Len(a))],
                    IF Len(a) = 0 \/ Len(b) = 0 THEN 0 ELSE Len(a) + Len(b)) :
          a \in {x}, b \in {y}})

\* -1, 0 or 1 as the places lo..hi of a are less than, the same as or more
\* than those of b
RECURSIVE CompareRange(_, _, _, _)
CompareRange(a, b, lo, hi) ==
  IF lo > hi THEN 0
  ELSE IF lo = hi
    THEN (IF BigDigit(a, lo) < BigDigit(b, lo) THEN -1
          ELSE IF BigDigit(a, lo) > BigDigit(b, lo) THEN 1 ELSE 0)
  ELSE TheOne({IF high # 0 THEN high ELSE CompareRange(a, b, lo, (lo + hi) \div 2) :
               high \in {CompareRange(a, b, ((lo + hi) \div 2) + 1, hi)}})

BigCompare(x, y) ==
  TheOne({CompareRange(a, b, 1, IF Len(a) > Len(b) THEN Len(a) ELSE Len(b)) :
          a \in {x}, b \in {y}})

\* x * 10^p
BigShift(x, p) == IF x = <<>> THEN <<>> ELSE [i \in 1..p |-> 0] \o x

\* b^p
RECURSIVE BigPower(_, _)
BigPower(b, p) ==
  IF p = 0 THEN <<1>>
  ELSE IF p % 2 = 1 THEN BigMul(b, BigPower(b, p - 1))
  ELSE TheOne({BigMul(h, h) : h \in {BigPower(b, p \div 2)}})

\* the quotient and the remainder of r by the number whose multiples by
\* 0..10 are multiples, where the quotient is below 10^j; q holds the
\* quotient's digits above place j
RECURSIVE LongDivision(_, _, _, _)
LongDivision(r, multiples, j, q) ==
  IF j = 0 THEN <<SubSeq(q, 1, TopDigit(q, 1, Len(q))), r>>
  ELSE TheOne({
         TheOne({LongDivision(rest, multiples, j - 1, <<d>> \o q) :
                 rest \in {BigSub(r, BigShift(multiples[d + 1], j - 1))}}) :
         d \in {CHOOSE d \in 0..9 :
                  /\ BigCompare(BigShift(multiples[d + 1], j - 1), r) <= 0
                  /\ BigCompare(BigShift(multiples[d + 2], j - 1), r) > 0}})

\* <<the whole part of num / den, the remainder>>, where the quotient has
\* at most places digits
BigDivide(num, den, places) ==
  TheOne({LongDivision(r, multiples, places, <<>>) :
          r \in {num},
          multiples \in {<<<<>>, den, BigMul(den, <<2>>), BigMul(den, <<3>>),
                           BigMul(den, <<4>>), BigMul(den, <<5>>), BigMul(den, <<6>>),
                           BigMul(den, <<7>>), BigMul(den, <<8>>), BigMul(den, <<9>>),
                           BigShift(den, 1)>>}})

(***************************************************************************)
(* Doubles.  A finite double other than zero is m * 2^e with m below 2^53  *)
(* and e in -1074..971, and m at least 2^52 unless e is -1074.             *)
(***************************************************************************)
\* 2^52 and 2^53
TwoTo52 == <<6, 9, 4, 0, 7, 3, 7, 2, 6, 9, 9, 5, 3, 0, 5, 4>>
TwoTo53 == <<2, 9, 9, 0, 4, 7, 4, 5, 2, 9, 9, 1, 7, 0, 0, 9>>
MinExponent == -1074
MaxExponent == 971

\* <<m, e>> once the quotient q and the remainder r of num by den are
\* known: round to nearest, ties to even
RoundedQuotient(q, r, den, e) ==
  TheOne({IF m = TwoTo53 THEN <<TwoTo52, e + 1>> ELSE <<m, e>> :
          m \in {TheOne({IF c > 0 \/ (c = 0 /\ BigDigit(q, 1) % 2 = 1)
                           THEN BigAdd(q, <<1>>) ELSE q :
                         c \in {BigCompare(BigMul(r, <<2>>), den)}})}})

\* <<m, e>> for num / (den * 2^s) * 2^(e0 + s)
RoundedAt(num, den, e) ==
  TheOne({RoundedQuotient(d[1], d[2], den, e) : d \in {BigDivide(num, den, 16)}})

\* the double nearest to num / den * 2^e0, where num / den is at least 2^52
\* unless e0 is MinExponent, and below 2^61
RoundedFrom(num, den, e0) ==
  TheOne({RoundedAt(num, BigMul(den, BigPower(<<2>>, s)), e0 + s) :
          s \in {CHOOSE s \in 0..8 :
                   /\ BigCompare(num, BigMul(BigMul(den, TwoTo53), BigPower(<<2>>, s))) < 0
                   /\ \/ s = 0
                      \/ BigCompare(num, BigMul(BigMul(den, TwoTo52),
                                                BigPower(<<2>>, s))) >= 0}})

\* the double <<m, e>> nearest to digits * 10^x, where the number is between
\* 10^(n - 1) and 10^n and n is in -323..309: e0 is at most the exponent
\* of the number, 3.321928 being below the logarithm of 10 to base 2
RoundToDouble(digits, x, n) ==
  TheOne({RoundedFrom(
            TheOne({IF e0 < 0 THEN BigMul(u, BigPower(<<2>>, -e0)) ELSE u :
                    u \in {BigShift(digits, IF x > 0 THEN x ELSE 0)}}),
            TheOne({IF e0 > 0 THEN BigMul(v, BigPower(<<2>>, e0)) ELSE v :
                    v \in {BigShift(<<1>>, IF x < 0 THEN -x ELSE 0)}}),
            e0) :
          e0 \in {IF (((n - 1) * 3321928) \div 1000000) - 54 < MinExponent
                    THEN MinExponent
                    ELSE (((n - 1) * 3321928) \div 1000000) - 54}})

\* v with all but its first j digits made zero, and that plus one unit of
\* the last of them
RoundedDown(v, j) == [i \in 1..(Len(v) - j) |-> 0] \o SubSeq(v, Len(v) - j + 1, Len(v))
RoundedUp(v, j) == BigAdd(RoundedDown(v, j), BigShift(<<1>>, Len(v) - j))

\* a number of at most j digits lies between low and v, or between v and
\* high; the bounds count when closed
FitsBelow(v, low, j, closed) ==
  BigCompare(low, RoundedDown(v, j)) < (IF closed THEN 1 ELSE 0)
FitsAbove(v, high, j, closed) ==
  BigCompare(RoundedUp(v, j), high) < (IF closed THEN 1 ELSE 0)

\* of down and up, the one that fits and is nearer to v; of two that are as
\* near, the one whose last digit, at place, is even
Nearer(v, down, up, below, above, place) ==
  IF ~above THEN down
  ELSE IF ~below THEN up
  ELSE TheOne({IF c < 0 \/ (c = 0 /\ down[place] % 2 = 0) THEN down ELSE up :
               c \in {BigCompare(BigSub(v, down), BigSub(up, v))}})

\* the number of j digits between low and high that is nearest to v
NearestOf(v, low, high, j, closed) ==
  TheOne({Nearer(v, down, up, FitsBelow(v, low, j, closed), FitsAbove(v, high, j, closed),
                 Len(v) - j + 1) :
          down \in {RoundedDown(v, j)}, up \in {RoundedUp(v, j)}})

\* <<the digits of r without the zeros at its end, the number of digits of
\* r before the decimal point>>, for r in units of 10^scale with at most 17
\* digits before its zeros
Significand(r, scale) ==
  TheOne({<<<<>> \o [i \in 1..(Len(r) - bottom + 1) |-> DigitChars[r[Len(r) + 1 - i] + 1]],
            Len(r) + scale>> :
          bottom \in {CHOOSE i \in (IF Len(r) > 18 THEN Len(r) - 18 ELSE 1)..Len(r) :
                        /\ r[i] # 0
                        /\ \A k \in (IF Len(r) > 18 THEN Len(r) - 18 ELSE 1)..(i - 1) :
                             r[k] = 0}})

\* the decimal number of the fewest digits between low and high, and of
\* those the nearest to v
ShortestWithin(v, low, high, closed, scale) ==
  TheOne({Significand(NearestOf(v, low, high, j, closed), scale) :
          j \in {1 + Cardinality({i \in 1..(IF Len(v) < 17 THEN Len(v) ELSE 17) :
                                    /\ ~FitsBelow(v, low, i, closed)
                                    /\ ~FitsAbove(v, high, i, closed)})}})

\* in units of a quarter of 2^e times unit: the double m * 2^e, and the
\* bounds of the numbers that round to it, half way to the doubles next to
\* it; the double below a power of two is half as far away
ShortestFor(m4, unit, narrow, closed, scale) ==
  TheOne({ShortestWithin(v, low, high, closed, scale) :
          v \in {BigMul(m4, unit)},
          low \in {BigMul(BigSub(m4, IF narrow THEN <<1>> ELSE <<2>>), unit)},
          high \in {BigMul(BigAdd(m4, <<2>>), unit)}})

\* Number::toString's digits and exponent for the double m * 2^e: the
\* shortest decimal number that rounds to the double
ShortestDecimal(m, e) ==
  TheOne({ShortestFor(m4, unit, m = TwoTo52 /\ e > MinExponent, m[1] % 2 = 0,
                      IF e < 2 THEN e - 2 ELSE 0) :
          m4 \in {BigMul(m, <<4>>)},
          unit \in {IF e < 2 THEN BigPower(<<5>>, 2 - e) ELSE BigPower(<<2>>, e - 2)}})

\* Number::toString of the number 0.d1...dk * 10^n, d1 and dk not zero
NumberToString(sig, n) ==
  LET k == Len(sig)
      zeros(m) == [i \in 1..m |-> "0"]
      e == n - 1
      exponent == <<"e", IF e < 0 THEN "-" ELSE "+">> \o Decimal(IF e < 0 THEN -e ELSE e)
  IN  IF k <= n /\ n <= 21 THEN sig \o zeros(n - k)
      ELSE IF 0 < n /\ n <= 21 THEN SubSeq(sig, 1, n) \o <<".">> \o SubSeq(sig, n + 1, k)
      ELSE IF -6 < n /\ n <= 0 THEN <<"0", ".">> \o zeros(-n) \o sig
      ELSE IF k = 1 THEN sig \o exponent
      ELSE <<sig[1], ".">> \o SubSeq(sig, 2, k) \o exponent

\* the text of the double m * 2^e
DoubleToString(d) ==
  IF d[1] = <<>> THEN <<"0">>
  ELSE IF d[2] > MaxExponent THEN <<"I","n","f","i","n","i","t","y">>
  ELSE TheOne({NumberToString(s[1], s[2]) : s \in {ShortestDecimal(d[1], d[2])}})

\* the text of the double nearest to 0.d1...dk * 10^n, d1 and dk not zero.
\* A number of at most 15 digits between 1e-307 and 1e308 is the shortest
\* that rounds to its double (DBL_DIG).
StringToNumber(sig, n) ==
  IF n > 309 THEN <<"I","n","f","i","n","i","t","y">>
  ELSE IF n < -323 THEN <<"0">>
  ELSE IF Len(sig) <= 15 /\ n >= -306 /\ n <= 308 THEN NumberToString(sig, n)
  ELSE DoubleToString(
         RoundToDouble(<<>> \o [i \in 1..Len(sig) |-> DigitValue(sig[Len(sig) + 1 - i])],
                       n - Len(sig), n))

\* the number a JSON numeral denotes: its sign, the digits of its integer and
\* fraction parts, and its exponent
NumberValue(negative, int, frac, expNegative, exp) ==
  LET digits == int \o frac
      lead == Cardinality({m \in 1..Len(digits) : \A j \in 1..m : digits[j] = "0"})
      trail == Cardinality({m \in 1..Len(digits) :
                              \A j \in (Len(digits) - m + 1)..Len(digits) : digits[j] = "0"})
      expDigits == SubSeq(exp, 1 + Cardinality({m \in 1..Len(exp) :
                                                  \A j \in 1..m : exp[j] = "0"}), Len(exp))
      \* an exponent this far beyond the digits gives Infinity or 0 whatever
      \* the digits are
      limit == Len(digits) + 400
      magnitude ==
        IF Len(expDigits) > 9 THEN limit
        ELSE LET v[j \in 0..Len(expDigits)] ==
                   IF j = 0 THEN 0 ELSE v[j - 1] * 10 + DigitValue(expDigits[j])
             IN  IF v[Len(expDigits)] > limit THEN limit ELSE v[Len(expDigits)]
      text(sig, n) ==
        TheOne({IF t = <<"0">> THEN t ELSE (IF negative THEN <<"-">> ELSE <<>>) \o t :
                t \in {StringToNumber(sig, n)}})
  IN  IF lead = Len(digits) THEN JNum(<<"0">>)
      ELSE TheOne({JNum(text(sig, n)) :
                   sig \in {SubSeq(digits, lead + 1, Len(digits) - trail)},
                   n \in {Len(int) - lead + (IF expNegative THEN -magnitude ELSE magnitude)}})

\* a JSON numeral at position i: -? (0 | [1-9][0-9]*) (. [0-9]+)? ([eE] [+-]? [0-9]+)?
ParseNumber(t, i) ==
  LET negative == At(t, i) = "-"
      intAt == IF negative THEN i + 1 ELSE i
      intLen == IF At(t, intAt) = "0" THEN 1 ELSE DigitRun(t, intAt)
      fracAt == intAt + intLen
      hasFrac == At(t, fracAt) = "."
      fracLen == IF hasFrac THEN DigitRun(t, fracAt + 1) ELSE 0
      expAt == IF hasFrac THEN fracAt + 1 + fracLen ELSE fracAt
      hasExp == At(t, expAt) \in {"e", "E"}
      hasSign == hasExp /\ At(t, expAt + 1) \in {"+", "-"}
      expDigitsAt == IF hasSign THEN expAt + 2 ELSE expAt + 1
      expLen == IF hasExp THEN DigitRun(t, expDigitsAt) ELSE 0
      next == IF hasExp THEN expDigitsAt + expLen ELSE expAt
  IN  IF intLen = 0 \/ (hasFrac /\ fracLen = 0) \/ (hasExp /\ expLen = 0)
        THEN ParseFailure
        ELSE Parsed(NumberValue(negative,
                                SubSeq(t, intAt, intAt + intLen - 1),
                                SubSeq(t, fracAt + 1, fracAt + fracLen),
                                hasSign /\ t[expAt + 1] = "-",
                                SubSeq(t, expDigitsAt, expDigitsAt + expLen - 1)),
                    next)

RECURSIVE ParseValue(_, _)
RECURSIVE ParseMembers(_, _, _, _)
RECURSIVE ParseElements(_, _, _, _)

\* a JSON value that begins at position i
ValueAt(t, i) ==
  LET c == At(t, i)
      literal(word, v) ==
        IF i + Len(word) - 1 <= Len(t) /\ SubSeq(t, i, i + Len(word) - 1) = word
          THEN Parsed(v, i + Len(word))
          ELSE ParseFailure
  IN  CASE c = "{" -> ParseMembers(t, i + 1, JObj(<<>>), TRUE)
        [] c = "[" -> ParseElements(t, i + 1, <<>>, TRUE)
        [] c = "\"" -> ParseChars(t, i + 1, <<>>)
        [] c = "-" \/ IsDigit(c) -> ParseNumber(t, i)
        [] c = "t" -> literal(<<"t","r","u","e">>, JBool(TRUE))
        [] c = "f" -> literal(<<"f","a","l","s","e">>, JBool(FALSE))
        [] c = "n" -> literal(<<"n","u","l","l">>, JNull)
        [] OTHER -> ParseFailure

\* a JSON value at the first position from `from` that is not white space
ParseValue(t, from) ==
  TheOne({ValueAt(t, i) : i \in {SkipWhiteSpace(t, from)}})

\* the rest of an object after the value val of its member key; a key that
\* occurs twice keeps its place and takes the later value
MembersAfterValue(t, obj, key, val) ==
  LET after == SkipWhiteSpace(t, val.next)
      extended == SetKey(obj, key, val.value)
  IN  IF ~val.ok THEN ParseFailure
      ELSE IF At(t, after) = "," THEN ParseMembers(t, after + 1, extended, FALSE)
      ELSE IF At(t, after) = "}" THEN Parsed(extended, after + 1)
      ELSE ParseFailure

\* the rest of an object after the key of a member
MembersAfterKey(t, obj, key) ==
  LET colon == SkipWhiteSpace(t, key.next)
  IN  IF ~key.ok THEN ParseFailure
      ELSE IF At(t, colon) # ":" THEN ParseFailure
      ELSE TheOne({MembersAfterValue(t, obj, key.value.str, val) :
                     val \in {ParseValue(t, colon + 1)}})

\* the members of an object from position i, which is not white space
MembersAt(t, i, obj, first) ==
  IF first /\ At(t, i) = "}" THEN Parsed(obj, i + 1)
  ELSE IF At(t, i) # "\"" THEN ParseFailure
  ELSE TheOne({MembersAfterKey(t, obj, key) : key \in {ParseChars(t, i + 1, <<>>)}})

\* the members of an object after its brace or after a comma
ParseMembers(t, from, obj, first) ==
  TheOne({MembersAt(t, i, o, first) : i \in {SkipWhiteSpace(t, from)}, o \in {obj}})

\* the rest of an array after its element val
ElementsAfterValue(t, elements, val) ==
  LET after == SkipWhiteSpace(t, val.next)
      extended == Append(elements, val.value)
  IN  IF ~val.ok THEN ParseFailure
      ELSE IF At(t, after) = "," THEN ParseElements(t, after + 1, extended, FALSE)
      ELSE IF At(t, after) = "]" THEN Parsed(JArr(extended), after + 1)
      ELSE ParseFailure

\* the elements of an array from position i, which is not white space
ElementsAt(t, i, elements, first) ==
  IF first /\ At(t, i) = "]" THEN Parsed(JArr(elements), i + 1)
  ELSE TheOne({ElementsAfterValue(t, elements, val) : val \in {ValueAt(t, i)}})

\* the elements of an array after its bracket or after a comma
ParseElements(t, from, elements, first) ==
  TheOne({ElementsAt(t, i, e, first) : i \in {SkipWhiteSpace(t, from)}, e \in {elements}})

\* the value of a whole JSON text
ParseText(t) ==
  TheOne({IF parsed.ok /\ SkipWhiteSpace(t, parsed.next) = Len(t) + 1
            THEN [ok |-> TRUE, value |-> parsed.value]
            ELSE [ok |-> FALSE, value |-> JObj(<<>>)] :
          parsed \in {ParseValue(t, 1)}})

\* JSON.parse: ok is FALSE where JSON.parse throws a SyntaxError
JSONParse(text) == TheOne({ParseText(t) : t \in {text}})

\* Number.MAX_SAFE_INTEGER, 2^53 - 1
MaxSafeInteger == <<"9","0","0","7","1","9","9","2","5","4","7","4","0","9","9","1">>

\* a number marshall refuses (convertToNumberAttr throws): one that is not
\* finite, or one beyond the safe integers
IsImpreciseNumber(text) ==
  LET unsigned == IF At(text, 1) = "-" THEN Tail(text) ELSE text
      whole == SubSeq(unsigned, 1, DigitRun(unsigned, 1))
  IN  \/ unsigned = <<"I","n","f","i","n","i","t","y">>
      \/ \E i \in 1..(Len(unsigned) - 1) : unsigned[i] = "e" /\ unsigned[i + 1] = "+"
      \/ /\ \A i \in 1..Len(unsigned) : unsigned[i] # "e"
         /\ DigitsLess(MaxSafeInteger, whole)

\* property names that marshall reads from the object it converts
K_constructor == <<"c","o","n","s","t","r","u","c","t","o","r">>
K_name == <<"n","a","m","e">>
K_toString == <<"t","o","S","t","r","i","n","g">>
K_valueOf == <<"v","a","l","u","e","O","f">>
K_proto == <<"_","_","p","r","o","t","o","_","_">>

\* String(data) of an object of JSON.parse
ObjectText == <<"[","o","b","j","e","c","t"," ","O","b","j","e","c","t","]">>

\* the names isBinary looks for in data.constructor.name
binaryTypes ==
  { <<"A","r","r","a","y","B","u","f","f","e","r">>,
    <<"B","l","o","b">>,
    <<"B","u","f","f","e","r">>,
    <<"D","a","t","a","V","i","e","w">>,
    <<"F","i","l","e">>,
    <<"I","n","t","8","A","r","r","a","y">>,
    <<"U","i","n","t","8","A","r","r","a","y">>,
    <<"U","i","n","t","8","C","l","a","m","p","e","d","A","r","r","a","y">>,
    <<"I","n","t","1","6","A","r","r","a","y">>,
    <<"U","i","n","t","1","6","A","r","r","a","y">>,
    <<"I","n","t","3","2","A","r","r","a","y">>,
    <<"U","i","n","t","3","2","A","r","r","a","y">>,
    <<"F","l","o","a","t","3","2","A","r","r","a","y">>,
    <<"F","l","o","a","t","6","4","A","r","r","a","y">>,
    <<"B","i","g","I","n","t","6","4","A","r","r","a","y">>,
    <<"B","i","g","U","i","n","t","6","4","A","r","r","a","y">> }

\* data?.constructor?.name, data being an object of JSON.parse: the name of
\* Object unless the object has an own member "constructor", and then the
\* member "name" of what that holds (JNull for undefined)
ConstructorName(data) ==
  IF ~Has(data, K_constructor) THEN JStr(<<"O","b","j","e","c","t">>)
  ELSE LET c == Get(data, K_constructor)
       IN  IF c.type = "object" /\ Has(c, K_name) THEN Get(c, K_name) ELSE JNull

\* the branch of convertToAttr an object takes, by the attribute it returns:
\* "M" for a map, "B", "BOOL", "N" and "S" for an object it takes for a
\* binary, a Boolean, a Number or a String, and "throws" for an object it
\* takes for a Set or a Map (which it cannot iterate), whose toString or
\* valueOf it calls in vain, or which it refuses as unsupported
AttrKind(data) ==
  LET name == ConstructorName(data)
  IN  IF name \in {JStr(<<"S","e","t">>), JStr(<<"M","a","p">>)} THEN "throws"
      ELSE IF name = JStr(<<"O","b","j","e","c","t">>) \/ ~Truthy(Get(data, K_constructor)) THEN "M"
      ELSE IF name.type = "string" /\ name.str \in binaryTypes THEN "B"
      ELSE IF name = JStr(<<"B","o","o","l","e","a","n">>)
        THEN IF Has(data, K_valueOf) THEN "throws" ELSE "BOOL"
      ELSE IF name = JStr(<<"N","u","m","b","e","r">>)
        THEN IF Has(data, K_toString) THEN "throws" ELSE "N"
      ELSE IF name = JStr(<<"S","t","r","i","n","g">>)
        THEN IF Has(data, K_toString) THEN "throws" ELSE "S"
      ELSE "throws"

\* marshall(v) throws: v holds a number it refuses or an object it cannot
\* convert
RECURSIVE marshallThrows(_)
marshallThrows(v) ==
  \/ v.type = "number" /\ IsImpreciseNumber(v.str)
  \/ v.type = "object" /\ AttrKind(v) = "throws"
  \/ /\ v.type = "array" \/ (v.type = "object" /\ AttrKind(v) = "M")
     /\ \E i \in 1..Len(v.members) : marshallThrows(v.members[i][2])

\* AWS marshall: a value as a DynamoDB attribute value (S, N, BOOL, NULL, M,
\* L, B).  The members of an object are assigned to a new object, where the
\* key "__proto__" sets the prototype and leaves no member; an object taken
\* for a String or a Number is written as its text, and one taken for a
\* Boolean or a binary is passed on as it is
RECURSIVE marshall(_)
marshall(v) ==
  IF v.type = "object" /\ AttrKind(v) \in {"S", "N"}
    THEN [type |-> AttrKind(v), str |-> ObjectText, members |-> <<>>]
  ELSE IF v.type = "object" /\ AttrKind(v) \in {"BOOL", "B"}
    THEN [type |-> AttrKind(v), str |-> <<>>, members |-> v.members]
  ELSE
  TheOne({
      [type |-> CASE v.type = "string" -> "S" [] v.type = "number" -> "N"
                  [] v.type = "boolean" -> "BOOL" [] v.type = "null" -> "NULL"
                  [] v.type = "object" -> "M" [] v.type = "array" -> "L",
       str |-> v.str,
       members |-> [i \in 1..Len(own) |-> <<own[i][1], marshall(own[i][2])>>]] :
    own \in {SelectSeq(v.members, LAMBDA m : v.type = "array" \/ m[1] # K_proto)}})

\* the table takes the attribute value: a number is a numeral, a Boolean is
\* true or false, and nothing is a binary (the request cannot be encoded)
RECURSIVE IsAttributeValue(_)
IsAttributeValue(a) ==
  CASE a.type = "N" -> a.str # ObjectText
    [] a.type = "BOOL" -> a.members = <<>>
    [] a.type = "B" -> FALSE
    [] OTHER -> \A i \in 1..Len(a.members) : IsAttributeValue(a.members[i][2])

\* AWS unmarshall: a DynamoDB attribute value as a value
RECURSIVE unmarshall(_)
unmarshall(a) ==
  [type |-> CASE a.type = "S" -> "string" [] a.type = "N" -> "number"
              [] a.type = "BOOL" -> "boolean" [] a.type = "NULL" -> "null"
              [] a.type = "M" -> "object" [] a.type = "L" -> "array",
   str |-> a.str,
   members |-> [i \in 1..Len(a.members) |-> <<a.members[i][1], unmarshall(a.members[i][2])>>]]

(***************************************************************************)
(* What the generation service may answer.                                 *)
(***************************************************************************)
\* scenario 1 of the specification: a valid ingredient
GingerObject ==
  JObj(<< <<K_ItemType, JStr(<<"i","n","g","r","e","d","i","e","n","t">>)>>,
          <<K_Name, JObj(<< <<K_English, JStr(<<"G","i","n","g","e","r">>)>> >>)>>,
          <<K_Category, JStr(<<"r","o","o","t"," ","v","e","g","e","t","a","b","l","e">>)>> >>)
\* a valid nutrient
SodiumObject ==
  JObj(<< <<K_ItemType, JStr(<<"n","u","t","r","i","e","n","t">>)>>,
          <<K_Name, JStr(<<"S","o","d","i","u","m">>)>>,
          <<K_Type, JStr(<<"m","i","n","e","r","a","l">>)>> >>)
\* the answer the prompt asks for when the name is no food: {"error":"Invalid item"}
ErrorObject == JObj(<< <<<<"e","r","r","o","r">>, JStr(<<"I","n","v","a","l","i","d"," ","i","t","e","m">>)>> >>)
\* a valid consumable ingredient whose nutritional information has a key "Error"
GingerWithErrorKey ==
  JObj(<< <<K_ItemType, JStr(<<"i","n","g","r","e","d","i","e","n","t">>)>>,
          <<K_Name, JObj(<< <<K_English, JStr(<<"G","i","n","g","e","r">>)>> >>)>>,
          <<K_NutritionalInformation, JObj(<< <<<<"E","r","r","o","r">>, JNum(<<"0">>)>> >>)>> >>)
\* a schema-valid ingredient of a denied category
PlasticObject ==
  JObj(<< <<K_ItemType, JStr(<<"i","n","g","r","e","d","i","e","n","t">>)>>,
          <<K_Name, JObj(<< <<K_English, JStr(<<"C","u","p">>)>> >>)>>,
          <<K_Category, JStr(<<"p","l","a","s","t","i","c"," ","c","o","n","t","a","i","n","e","r">>)>> >>)
\* a nutrient to which the generator added a system field
SodiumWithItemID == SetKey(SodiumObject, K_ItemID, JStr(<<"x">>))
\* a valid ingredient with a number beyond the safe integers
GingerWithHugeNumber ==
  SetKey(GingerObject, K_NutritionalInformation,
         JObj(<< <<<<"m","g">>, JNum(<<"1","e","+","2","1">>)>> >>))

\* a valid nutrient to which the generator added a key "error"
SodiumWithErrorKey == SetKey(SodiumObject, <<"e","r","r","o","r">>, JStr(<<"x">>))
\* a valid ingredient whose nutritional information has a member
\* "constructor" with the name "String"
GingerNamedString ==
  SetKey(GingerObject, K_NutritionalInformation,
         JObj(<< <<K_constructor,
                   JObj(<< <<K_name, JStr(<<"S","t","r","i","n","g">>)>> >>)>> >>))

GeneratedObjects ==
  {GingerObject, SodiumObject, ErrorObject, GingerWithErrorKey, PlasticObject,
   SodiumWithItemID, GingerWithHugeNumber, SodiumWithErrorKey, GingerNamedString}

Serialized == [o \in GeneratedObjects |-> Serialize(o)]

\* completion.choices[0].message.content of the replies the model considers
Replies ==
  << Serialized[GingerObject],
     <<" ","H","e","r","e"," ","i","t"," ","i","s",":","\n">> \o Serialized[GingerObject] \o <<"\n","E","n","j","o","y","."," ">>,
     Serialized[ErrorObject],
     Serialized[GingerWithErrorKey],
     Serialized[PlasticObject],
     Serialized[SodiumWithItemID],
     <<"S","o","r","r","y",".">>,
     SubSeq(Serialized[SodiumObject], 1, 20),
     <<"{","o","o","p","s","}">>,
     <<"N","o"," ","\"","E","r","r","o","r","\"",":"," ","n","o","t"," ","f","o","o","d">>,
     Serialized[GingerWithHugeNumber],
     Serialized[SodiumWithErrorKey],
     Serialized[GingerNamedString] >>

(***************************************************************************)
(* State.                                                                  *)
(***************************************************************************)
VARIABLES
  now,        \* Date.now(), in milliseconds
  ticks,      \* number of clock advances so far
  cache,      \* the module-level cache object: key -> [data, timestamp]
  store,      \* the DynamoDB table: a set of marshalled items
  pc,         \* where each invocation of handler stands
  event,      \* the event each invocation received
  inflight,   \* the result of the DynamoDB call an invocation awaits
  itemData,   \* the itemData of each invocation
  response,   \* what each invocation returned
  log,        \* the components each invocation has used, in order
  genStart,   \* when the pending generation call of each invocation began
  replyOf,    \* which of Replies each invocation received (0: none yet)
  served,     \* the invocations that had returned 200 when each invocation began
  wrote,      \* whether each invocation changed the cache, and the records it added
  got,        \* the result of the last getCachedResponse of the cache exerciser
  lastSet,    \* the arguments and time of the last setCachedResponse per key
  doc,        \* the object the record checks are applied to
  verdict     \* what the record checks have returned for doc so far

vars ==
  <<now, ticks, cache, store, pc, event, inflight, itemData, response, log,
    genStart, replyOf, served, wrote, got, lastSet, doc, verdict>>

Requests == 1..MaxRequests

\* null, and the absence of a value
Null == JNull
NoResponse == [statusCode |-> 0, found |-> FALSE, item |-> Null, error |-> <<>>]
NoResult == [ok |-> FALSE, Items |-> <<>>]
\* no check applied to doc yet
NoVerdict ==
  [input |-> "none", consumable |-> "none", storage |-> "none",
   assigned |-> FALSE, dropped |-> FALSE]
\* no getCachedResponse call observed
NoGet == [called |-> FALSE, key |-> <<>>, result |-> Null]

\* event.queryStringParameters of the events the model considers: none, an
\* empty name, and names of two keys
Events ==
  { [hasName |-> FALSE, name |-> <<>>],
    [hasName |-> TRUE, name |-> <<>>],
    [hasName |-> TRUE, name |-> <<"g","i","n","g","e","r">>],
    [hasName |-> TRUE, name |-> <<"G","i","n","g","e","r"," ">>],
    [hasName |-> TRUE, name |-> <<"t","e","a">>] }

\* events whose names are one Greek word, ending in a sigma, in small
\* letters, with a capital first and a space after it, and in capitals
NameEvents ==
  { [hasName |-> TRUE, name |-> <<"U+03C6","U+03B1","U+03BA","U+03B5","U+03C3">>],
    [hasName |-> TRUE, name |-> <<"U+03A6","U+03B1","U+03BA","U+03B5","U+03C3"," ">>],
    [hasName |-> TRUE, name |-> <<"U+03A6","U+0391","U+039A","U+0395","U+03A3">>] }

\* increments by which the clock advances: just short of the TTL, and the TTL
TickDeltas == {CACHE_TTL - 1, CACHE_TTL}

Init ==
  /\ now = 0
  /\ ticks = 0
  /\ cache = <<>>
  /\ store = {}
  /\ pc = [r \in Requests |-> "idle"]
  /\ event = [r \in Requests |-> [hasName |-> FALSE, name |-> <<>>]]
  /\ inflight = [r \in Requests |-> NoResult]
  /\ itemData = [r \in Requests |-> Null]
  /\ response = [r \in Requests |-> NoResponse]
  /\ log = [r \in Requests |-> <<>>]
  /\ genStart = [r \in Requests |-> 0]
  /\ replyOf = [r \in Requests |-> 0]
  /\ served = [r \in Requests |-> {}]
  /\ wrote = [r \in Requests |-> [cache |-> FALSE, store |-> {}]]
  /\ got = NoGet
  /\ lastSet = <<>>
  /\ doc = Null
  /\ verdict = NoVerdict

(***************************************************************************)
(* The cache.                                                              *)
(***************************************************************************)
\* a getCachedResponse that still serves an entry whose age equals the TTL
getCachedResponse_Inclusive(key) ==
  IF key \in DOMAIN cache /\ now - cache[key].timestamp <= CACHE_TTL
    THEN cache[key].data
    ELSE Null

\* getCachedResponse(key): the cached data, or Null for null
getCachedResponse(key) ==
  IF key \in DOMAIN cache /\ now - cache[key].timestamp < CACHE_TTL
    THEN cache[key].data
    ELSE Null

\* a getCachedResponse that renews the timestamp of the live entry it returns
cacheAfterGet_Refresh(key) ==
  IF key \in DOMAIN cache /\ now - cache[key].timestamp < CACHE_TTL
    THEN [cache EXCEPT ![key].timestamp = now]
    ELSE cache

\* the cache after getCachedResponse(key): lines 188-194 assign nothing
cacheAfterGet(key) == cache

\* the cache after setCachedResponse(key, data)
setCachedResponse(key, data) ==
  [k \in DOMAIN cache \cup {key} |->
     IF k = key THEN [data |-> data, timestamp |-> now] ELSE cache[k]]

(***************************************************************************)
(* The table.                                                              *)
(***************************************************************************)
\* a Query without its KeyConditionExpression: every item matches
QueryByName_Any(name) == store

\* the records of the table a Query on NameLowercaseIndex with
\* #nameLowercase = :name matches
QueryByName(name) ==
  {rec \in store : Has(rec, K_NameLowercase) /\ Get(rec, K_NameLowercase) = marshall(JStr(name))}

\* a PutItem without the ConditionExpression: an item of the same ItemID is replaced
PutItem_Unconditional(item) ==
  [ok |-> TRUE,
   table |-> {rec \in store : Get(rec, K_ItemID) # Get(item, K_ItemID)} \cup {item}]

\* a PutItem into a table keyed by NameLowercase: an item of the same name is replaced
PutItem_KeyedByName(item) ==
  [ok |-> TRUE,
   table |-> {rec \in store : Get(rec, K_NameLowercase) # Get(item, K_NameLowercase)}
               \cup {item}]

\* PutItem with ConditionExpression attribute_not_exists(ItemID), ItemID being
\* the table's key: the table afterwards, and whether the condition held
PutItem(item) ==
  IF \E rec \in store : Get(rec, K_ItemID) = Get(item, K_ItemID)
    THEN [ok |-> FALSE, table |-> store]
    ELSE [ok |-> TRUE, table |-> store \cup {item}]

(***************************************************************************)
(* The handler.  An action is the code between two awaits.                 *)
(***************************************************************************)
\* the error texts of the responses, as strings of code units
\* "Search name is required." (line 220)
SearchNameRequired ==
  <<"S","e","a","r","c","h"," ","n","a","m","e"," ","i","s"," ","r","e","q",
    "u","i","r","e","d",".">>
\* "Internal server error." (line 554)
InternalServerError ==
  <<"I","n","t","e","r","n","a","l"," ","s","e","r","v","e","r"," ","e","r",
    "r","o","r",".">>
\* "Failed to parse data from external service." (line 449)
ParseFailed ==
  <<"F","a","i","l","e","d"," ","t","o"," ","p","a","r","s","e"," ","d","a",
    "t","a"," ","f","r","o","m"," ","e","x","t","e","r","n","a","l"," ","s",
    "e","r","v","i","c","e",".">>
\* "Invalid data format received from external service." (line 467)
InvalidInput ==
  <<"I","n","v","a","l","i","d"," ","d","a","t","a"," ","f","o","r","m","a",
    "t"," ","r","e","c","e","i","v","e","d"," ","f","r","o","m"," ","e","x",
    "t","e","r","n","a","l"," ","s","e","r","v","i","c","e",".">>
\* "Invalid data format after adding system fields." (line 506)
InvalidStorage ==
  <<"I","n","v","a","l","i","d"," ","d","a","t","a"," ","f","o","r","m","a",
    "t"," ","a","f","t","e","r"," ","a","d","d","i","n","g"," ","s","y","s",
    "t","e","m"," ","f","i","e","l","d","s",".">>
\* "Failed to retrieve data from external service." (line 407)
GenerationFailed ==
  <<"F","a","i","l","e","d"," ","t","o"," ","r","e","t","r","i","e","v","e",
    " ","d","a","t","a"," ","f","r","o","m"," ","e","x","t","e","r","n","a",
    "l"," ","s","e","r","v","i","c","e",".">>
\* "Failed to save item data." (line 529)
SaveFailed ==
  <<"F","a","i","l","e","d"," ","t","o"," ","s","a","v","e"," ","i","t","e",
    "m"," ","d","a","t","a",".">>

Respond(status, found, item, error) ==
  [statusCode |-> status, found |-> found, item |-> item, error |-> error]

searchNameOf(e) == e.name
cacheKeyOf(e) == sha256(normalizeName(searchNameOf(e)))

\* handler returns resp: its locals are gone
Finish(r, resp, steps) ==
  /\ pc' = [pc EXCEPT ![r] = "done"]
  /\ itemData' = [itemData EXCEPT ![r] = Null]
  /\ inflight' = [inflight EXCEPT ![r] = NoResult]
  /\ response' = [response EXCEPT ![r] = resp]
  /\ log' = [log EXCEPT ![r] = log[r] \o steps \o <<"respond">>]

\* the invocations that have returned 200
Served == {q \in Requests : pc[q] = "done" /\ response[q].statusCode = 200}

\* lines 205-257: the parameter check, the cache lookup, and the Query sent
Start(r, e) ==
  /\ pc[r] = "idle"
  /\ \A q \in 1..(r - 1) : pc[q] # "idle"
  /\ event' = [event EXCEPT ![r] = e]
  /\ UNCHANGED <<now, ticks, store, genStart, replyOf, got, lastSet, doc, verdict>>
  /\ IF ~e.hasName \/ searchNameOf(e) = <<>>
       THEN /\ Finish(r, Respond(400, FALSE, Null, SearchNameRequired), <<>>)
            /\ UNCHANGED <<served, cache>>
       ELSE /\ served' = [served EXCEPT ![r] = Served]
            /\ cache' = cacheAfterGet(cacheKeyOf(e))
            /\ LET cachedData == getCachedResponse(cacheKeyOf(e))
               IN  IF cachedData # Null
                     THEN Finish(r, Respond(200, TRUE, cachedData, <<>>), <<"cache_get">>)
                     ELSE /\ pc' = [pc EXCEPT ![r] = "query"]
                          /\ log' = [log EXCEPT ![r] = <<"cache_get", "store_query">>]
                          /\ UNCHANGED <<response, itemData, inflight>>

\* the Query on the index NameLowercaseIndex (line 247) is answered.  A global
\* secondary index is read with eventual consistency: the Query fails, or
\* returns no item (no record matches, or the index does not hold the
\* matching records yet), or returns matching items, of which the handler
\* reads the first
StoreQuery(r) ==
  /\ pc[r] = "query"
  /\ pc' = [pc EXCEPT ![r] = "queried"]
  /\ LET matches == QueryByName(normalizeName(searchNameOf(event[r])))
     IN  \/ inflight' = [inflight EXCEPT ![r] = [ok |-> FALSE, Items |-> <<>>]]
         \/ inflight' = [inflight EXCEPT ![r] = [ok |-> TRUE, Items |-> <<>>]]
         \/ \E first \in matches :
              inflight' = [inflight EXCEPT ![r] = [ok |-> TRUE, Items |-> <<first>>]]
  /\ UNCHANGED <<now, ticks, cache, store, event, itemData, response, log, genStart,
                 replyOf, served, got, lastSet, doc, verdict>>

\* a QueryResume that goes on to the generation call whatever the Query returned
QueryResume_IgnoreHit(r) ==
  /\ pc[r] = "queried"
  /\ UNCHANGED <<now, ticks, store, event, replyOf, served, got, lastSet, doc, verdict>>
  /\ IF ~inflight[r].ok
       THEN /\ Finish(r, Respond(500, FALSE, Null, InternalServerError), <<>>)
            /\ UNCHANGED <<cache, genStart>>
       ELSE /\ pc' = [pc EXCEPT ![r] = "generate"]
            /\ genStart' = [genStart EXCEPT ![r] = now]
            /\ inflight' = [inflight EXCEPT ![r] = NoResult]
            /\ log' = [log EXCEPT ![r] = log[r] \o <<"generate">>]
            /\ UNCHANGED <<cache, itemData, response>>

\* lines 257-285: the Query's result, and on a miss the generation call
QueryResume(r) ==
  /\ pc[r] = "queried"
  /\ UNCHANGED <<now, ticks, store, event, replyOf, served, got, lastSet, doc, verdict>>
  /\ IF ~inflight[r].ok
       THEN /\ Finish(r, Respond(500, FALSE, Null, InternalServerError), <<>>)
            /\ UNCHANGED <<cache, genStart>>
       ELSE IF Len(inflight[r].Items) > 0
         THEN LET item == unmarshall(inflight[r].Items[1])
              IN  /\ cache' = setCachedResponse(cacheKeyOf(event[r]), item)
                  /\ Finish(r, Respond(200, TRUE, item, <<>>), <<"cache_set">>)
                  /\ UNCHANGED genStart
         ELSE /\ pc' = [pc EXCEPT ![r] = "generate"]
              /\ genStart' = [genStart EXCEPT ![r] = now]
              /\ inflight' = [inflight EXCEPT ![r] = NoResult]
              /\ log' = [log EXCEPT ![r] = log[r] \o <<"generate">>]
              /\ UNCHANGED <<cache, itemData, response>>

\* the needle of line 412
ErrorMarker == <<"\"","e","r","r","o","r","\"",":">>

\* a string of code units as the text of a message
\* the error of the 404 responses (lines 423 and 482)
NotConsumable(searchName) ==
  searchName \o <<" ","i","s"," ","n","o","t"," ","a"," ","v","a","l","i","d"," ",
                  "c","o","n","s","u","m","a","b","l","e"," ","f","o","o","d"," ",
                  "i","t","e","m"," ","o","r"," ","n","u","t","r","i","e","n","t","."
                >>

\* lines 432-439: JSON.parse of the span from the first { to the last } of
\* the reply; ok is FALSE when a brace is missing or JSON.parse throws
ParseReply(reply) ==
  LET jsonStart == indexOf(reply, "{")
      jsonEnd == lastIndexOf(reply, "}")
  IN  IF jsonStart = -1 \/ jsonEnd = -1
        THEN [ok |-> FALSE, value |-> Null]
        ELSE JSONParse(substring(reply, jsonStart, jsonEnd + 1))

\* an Analyse that parses and validates before it looks for the marker
Analyse_ParseFirst(reply, searchName) ==
  TheOne({
      IF ~parsed.ok
        THEN [steps |-> <<"parse">>, statusCode |-> 500,
              error |-> ParseFailed, value |-> Null]
      ELSE IF validateInput(parsed.value) /\ isConsumableIngredient(parsed.value)
        THEN [steps |-> <<"parse", "error_marker_check", "validate_input", "consumability_check">>,
              statusCode |-> 0, error |-> <<>>, value |-> parsed.value]
      ELSE IF includes(toLowerCase(reply), ErrorMarker)
        THEN [steps |-> <<"parse", "error_marker_check">>, statusCode |-> 404,
              error |-> NotConsumable(searchName), value |-> Null]
        ELSE [steps |-> <<"parse", "error_marker_check", "validate_input">>, statusCode |-> 500,
              error |-> InvalidInput, value |-> Null] :
    parsed \in {ParseReply(reply)}})

\* an Analyse in the order parse, marker check, validation, consumability
Analyse_ParseThenMarker(reply, searchName) ==
  TheOne({
      IF ~parsed.ok
        THEN [steps |-> <<"parse">>, statusCode |-> 500,
              error |-> ParseFailed, value |-> Null]
      ELSE IF includes(toLowerCase(reply), ErrorMarker)
        THEN [steps |-> <<"parse", "error_marker_check">>, statusCode |-> 404,
              error |-> NotConsumable(searchName), value |-> Null]
      ELSE IF ~validateInput(parsed.value)
        THEN [steps |-> <<"parse", "error_marker_check", "validate_input">>, statusCode |-> 500,
              error |-> InvalidInput, value |-> Null]
      ELSE IF ~isConsumableIngredient(parsed.value)
        THEN [steps |-> <<"parse", "error_marker_check", "validate_input", "consumability_check">>,
              statusCode |-> 404,
              error |-> NotConsumable(searchName), value |-> Null]
      ELSE [steps |-> <<"parse", "error_marker_check", "validate_input", "consumability_check">>,
            statusCode |-> 0, error |-> <<>>, value |-> parsed.value] :
    parsed \in {ParseReply(reply)}})

\* lines 411-485 on a reply: the steps taken, the status returned (0 when the
\* object goes on to be given its system fields), and the parsed object
Analyse(reply, searchName) ==
  IF includes(toLowerCase(reply), ErrorMarker)
    THEN [steps |-> <<"error_marker_check">>, statusCode |-> 404,
          error |-> NotConsumable(searchName), value |-> Null]
  ELSE
  TheOne({
      IF ~parsed.ok
        THEN [steps |-> <<"error_marker_check", "parse">>, statusCode |-> 500,
              error |-> ParseFailed, value |-> Null]
      ELSE IF ~validateInput(parsed.value)
        THEN [steps |-> <<"error_marker_check", "parse", "validate_input">>, statusCode |-> 500,
              error |-> InvalidInput, value |-> Null]
      ELSE IF isConsumableIngredientThrows(parsed.value)
        THEN [steps |-> <<"error_marker_check", "parse", "validate_input", "consumability_check">>,
              statusCode |-> 500, error |-> InternalServerError, value |-> Null]
      ELSE IF ~isConsumableIngredient(parsed.value)
        THEN [steps |-> <<"error_marker_check", "parse", "validate_input", "consumability_check">>,
              statusCode |-> 404,
              error |-> NotConsumable(searchName), value |-> Null]
      ELSE [steps |-> <<"error_marker_check", "parse", "validate_input", "consumability_check">>,
            statusCode |-> 0, error |-> <<>>, value |-> parsed.value] :
    parsed \in {ParseReply(reply)}})

\* the search names of the events that pass the check of line 212
SearchNames ==
  {e.name : e \in {e \in Events \cup NameEvents : e.hasName /\ e.name # <<>>}}

\* line 397 and lines 411-485 on each reply of Replies, for each search name
Analysed ==
  [searchName \in SearchNames |->
     [i \in 1..Len(Replies) |-> Analyse(trim(Replies[i]), searchName)]]

\* lines 488-490
AssignSystemFields(data, normalizedSearchName, uuid, t) ==
  SetKey(SetKey(SetKey(data, K_ItemID, JStr(uuid)),
                K_DateAdded, JStr(toISOString(t))),
         K_NameLowercase, JStr(normalizedSearchName))

\* lines 397-519: the reply arrives; the checks; marshall; the PutItem sent
GenReply(r, i, u) ==
  /\ pc[r] = "generate"
  /\ replyOf' = [replyOf EXCEPT ![r] = i]
  /\ genStart' = [genStart EXCEPT ![r] = 0]
  /\ UNCHANGED <<now, ticks, cache, store, event, served, got, lastSet, doc, verdict>>
  /\ \E a \in {Analysed[searchNameOf(event[r])][i]} :
       IF a.statusCode # 0
         THEN Finish(r, Respond(a.statusCode, FALSE, Null, a.error), a.steps)
       ELSE
       \E withFields \in {AssignSystemFields(a.value, normalizeName(searchNameOf(event[r])),
                                              UUID(u), now)} :
         IF ~validateStorage(withFields)
           THEN Finish(r, Respond(500, FALSE, Null,
                                  InvalidStorage),
                       a.steps \o <<"assign_system_fields", "validate_storage">>)
         \* line 514: marshall throws outside the try of line 518
         ELSE IF marshallThrows(withFields)
           THEN Finish(r, Respond(500, FALSE, Null, InternalServerError),
                       a.steps \o <<"assign_system_fields", "validate_storage">>)
           ELSE /\ itemData' = [itemData EXCEPT ![r] = withFields]
                /\ pc' = [pc EXCEPT ![r] = "put"]
                /\ log' = [log EXCEPT ![r] = log[r] \o a.steps
                             \o <<"assign_system_fields", "validate_storage", "store_put">>]
                /\ UNCHANGED <<response, inflight>>

\* a GenFail that lets the exception reach the outermost catch
GenFail_Internal(r) ==
  /\ pc[r] = "generate"
  /\ Finish(r, Respond(500, FALSE, Null, InternalServerError), <<>>)
  /\ genStart' = [genStart EXCEPT ![r] = 0]
  /\ UNCHANGED <<now, ticks, cache, store, event, replyOf, served, got, lastSet, doc, verdict>>

\* lines 399-409: the generation call throws
GenFail(r) ==
  /\ pc[r] = "generate"
  /\ Finish(r, Respond(502, FALSE, Null, GenerationFailed), <<>>)
  /\ genStart' = [genStart EXCEPT ![r] = 0]
  /\ UNCHANGED <<now, ticks, cache, store, event, replyOf, served, got, lastSet, doc, verdict>>

\* line 519, the table answers the PutItem: the call fails and nothing is
\* written (the only outcome for an item that holds what is no attribute
\* value); or the conditional insert is applied and the call returns (it
\* rejects when the ItemID exists); or the item is written and the call
\* still rejects, its response lost, which the handler cannot tell from the
\* first
StorePut(r) ==
  /\ pc[r] = "put"
  /\ pc' = [pc EXCEPT ![r] = "putdone"]
  /\ \/ /\ inflight' = [inflight EXCEPT ![r] = [ok |-> FALSE, Items |-> <<>>]]
        /\ UNCHANGED store
     \/ \E Item \in {marshall(itemData[r])} :
          \E put \in {PutItem(Item)} :
            /\ IsAttributeValue(Item)
            /\ inflight' = [inflight EXCEPT ![r] = [ok |-> put.ok, Items |-> <<>>]]
            /\ store' = put.table
     \/ \E Item \in {marshall(itemData[r])} :
          \E put \in {PutItem(Item)} :
            /\ IsAttributeValue(Item)
            /\ put.ok
            /\ inflight' = [inflight EXCEPT ![r] = [ok |-> FALSE, Items |-> <<>>]]
            /\ store' = put.table
  /\ UNCHANGED <<now, ticks, cache, event, itemData, response, log, genStart, replyOf,
                 served, got, lastSet, doc, verdict>>

\* a PutResume that caches the item before it looks at the PutItem's result
PutResume_CacheFirst(r) ==
  /\ pc[r] = "putdone"
  /\ UNCHANGED <<now, ticks, store, event, genStart, replyOf, served, got, lastSet, doc, verdict>>
  /\ cache' = setCachedResponse(cacheKeyOf(event[r]), itemData[r])
  /\ IF ~inflight[r].ok
       THEN Finish(r, Respond(500, FALSE, Null, SaveFailed), <<"cache_set">>)
       ELSE Finish(r, Respond(200, FALSE, itemData[r], <<>>), <<"cache_set">>)

\* lines 518-544: the PutItem's result; the cache entry; the response
PutResume(r) ==
  /\ pc[r] = "putdone"
  /\ UNCHANGED <<now, ticks, store, event, genStart, replyOf, served, got, lastSet, doc, verdict>>
  /\ IF ~inflight[r].ok
       THEN /\ Finish(r, Respond(500, FALSE, Null, SaveFailed), <<>>)
            /\ UNCHANGED cache
       ELSE /\ cache' = setCachedResponse(cacheKeyOf(event[r]), itemData[r])
            /\ Finish(r, Respond(200, FALSE, itemData[r], <<>>), <<"cache_set">>)

\* time passes
Tick(d) ==
  /\ ticks < MaxTicks
  /\ now + d < MsPerDay
  /\ now' = now + d
  /\ ticks' = ticks + 1
  /\ UNCHANGED <<cache, store, pc, event, inflight, itemData, response, log, genStart,
                 replyOf, served, wrote, got, lastSet, doc, verdict>>

\* bookkeeping of a step of invocation r: whether it changed the cache, and
\* the records it added to the table
Track(r) ==
  wrote' = [wrote EXCEPT ![r] = [cache |-> wrote[r].cache \/ cache' # cache,
                                 store |-> wrote[r].store \cup (store' \ store)]]

\* invocation r has changed the cache or the table
Wrote(r) == wrote[r].cache \/ wrote[r].store # {}

Next ==
  \/ \E r \in Requests, e \in Events : Start(r, e) /\ Track(r)
  \/ \E r \in Requests : StoreQuery(r) /\ Track(r)
  \/ \E r \in Requests : QueryResume(r) /\ Track(r)
  \/ \E r \in Requests, i \in 1..Len(Replies), u \in 1..MaxUUIDs : GenReply(r, i, u) /\ Track(r)
  \/ \E r \in Requests : GenFail(r) /\ Track(r)
  \/ \E r \in Requests : StorePut(r) /\ Track(r)
  \/ \E r \in Requests : PutResume(r) /\ Track(r)
  \/ \E d \in TickDeltas : Tick(d)

Spec == Init /\ [][Next]_vars

(***************************************************************************)
(* The handler on requests whose names are the same word in different      *)
(* letter cases, answered by the generation service with a valid item.     *)
(***************************************************************************)
\* the replies of the generation service to these requests: the valid ingredient
NameReplies == {1}

NamesNext ==
  \/ \E r \in Requests, e \in NameEvents : Start(r, e) /\ Track(r)
  \/ \E r \in Requests : StoreQuery(r) /\ Track(r)
  \/ \E r \in Requests : QueryResume(r) /\ Track(r)
  \/ \E r \in Requests, i \in NameReplies, u \in 1..MaxUUIDs : GenReply(r, i, u) /\ Track(r)
  \/ \E r \in Requests : GenFail(r) /\ Track(r)
  \/ \E r \in Requests : StorePut(r) /\ Track(r)
  \/ \E r \in Requests : PutResume(r) /\ Track(r)
  \/ \E d \in TickDeltas : Tick(d)

SpecNames == Init /\ [][NamesNext]_vars


(***************************************************************************)
(* The cache on its own: getCachedResponse and setCachedResponse called    *)
(* in any order on any key, with the clock advancing in between.  lastSet  *)
(* records, for each key, the data and the time of the latest              *)
(* setCachedResponse; got records the latest getCachedResponse call while  *)
(* nothing has happened since.                                             *)
(***************************************************************************)
MaxCacheTicks == 3

\* increments of the clock around the TTL
CacheTickDeltas == {1, CACHE_TTL - 1}

CacheKeys == {sha256(normalizeName(e.name)) : e \in {e \in Events : e.name # <<>>}}

CacheItems ==
  { AssignSystemFields(GingerObject, <<"g","i","n","g","e","r">>, UUID(1), 0),
    AssignSystemFields(SodiumObject, <<"t","e","a">>, UUID(2), 0) }

HandlerIdle ==
  UNCHANGED <<store, pc, event, inflight, itemData, response, log, genStart, replyOf,
              served, wrote, doc, verdict>>

\* lines 196-201
CacheSet(key, data) ==
  /\ cache' = setCachedResponse(key, data)
  /\ lastSet' = [k \in DOMAIN lastSet \cup {key} |->
                   IF k = key THEN [data |-> data, at |-> now] ELSE lastSet[k]]
  /\ got' = NoGet
  /\ UNCHANGED <<now, ticks>>
  /\ HandlerIdle

\* lines 188-194
CacheGet(key) ==
  /\ got' = [called |-> TRUE, key |-> key, result |-> getCachedResponse(key)]
  /\ cache' = cacheAfterGet(key)
  /\ UNCHANGED <<now, ticks, lastSet>>
  /\ HandlerIdle

\* Date.now() advances
CacheTick(d) ==
  /\ ticks < MaxCacheTicks
  /\ now' = now + d
  /\ ticks' = ticks + 1
  /\ got' = NoGet
  /\ UNCHANGED <<cache, lastSet>>
  /\ HandlerIdle

CacheNext ==
  \/ \E key \in CacheKeys, data \in CacheItems : CacheSet(key, data)
  \/ \E key \in CacheKeys : CacheGet(key)
  \/ \E d \in CacheTickDeltas : CacheTick(d)

SpecCache == Init /\ [][CacheNext]_vars



(***************************************************************************)
(* Properties.                                                             *)
(***************************************************************************)
Range(s) == {s[i] : i \in 1..Len(s)}

\* the steps of a request in the order of the handler's text
StepOrder ==
  <<"cache_get", "store_query", "generate", "error_marker_check", "parse",
    "validate_input", "consumability_check", "assign_system_fields",
    "validate_storage", "store_put", "cache_set", "respond">>

Rank(s) == CHOOSE i \in 1..Len(StepOrder) : StepOrder[i] = s

InOrder(l) == \A i \in 1..(Len(l) - 1) : Rank(l[i]) < Rank(l[i + 1])

\* the steps of a request that generated, stored and cached a new item
NewItemPath ==
  <<"cache_get", "store_query", "generate", "error_marker_check", "parse",
    "validate_input", "consumability_check", "assign_system_fields",
    "validate_storage", "store_put", "cache_set", "respond">>

WithoutSystemFields(item) ==
  DropKey(DropKey(DropKey(item, K_ItemID), K_DateAdded), K_NameLowercase)

\* the fields the handler adds (lines 488-490)
SystemKeys == {K_ItemID, K_DateAdded, K_NameLowercase}

\* what JSON.parse makes of the span from the first { to the last } of reply i
ReplyObject(i) ==
  LET text == trim(Replies[i])
  IN  JSONParse(substring(text, indexOf(text, "{"), lastIndexOf(text, "}") + 1))

ReplyObjects == [i \in 1..Len(Replies) |-> ReplyObject(i)]

\* the replies whose trimmed, lowercased text contains the marker
MarkerReplies ==
  {i \in 1..Len(Replies) : includes(toLowerCase(trim(Replies[i])), ErrorMarker)}

\* the search name of request r, trimmed and lowercased
KeyName(r) == toLowerCase(trim(event[r].name))

ReturnedNew(r) ==
  pc[r] = "done" /\ response[r].statusCode = 200 /\ ~response[r].found

ReturnedFound(r) ==
  pc[r] = "done" /\ response[r].statusCode = 200 /\ response[r].found

ReturnedError(r) ==
  pc[r] = "done" /\ response[r].statusCode \in {400, 404, 500, 502}

\* C1: a request waiting for the generation service has waited for at most
\* the 10-second bound: beyond it the request has ended (with status 502).
C1_GenerationBounded ==
  \A r \in Requests : pc[r] = "generate" => now - genStart[r] <= OPENAI_TIMEOUT

\* C2: when two requests of the same key have both returned a newly generated
\* item, the store holds both items, under the same NameLowercase and with
\* distinct ItemIDs: the conditional insert has let both through.
C2_DuplicateRecords ==
  \A r1, r2 \in Requests :
    (r1 # r2 /\ ReturnedNew(r1) /\ ReturnedNew(r2) /\ KeyName(r1) = KeyName(r2)) =>
      LET a == response[r1].item
          b == response[r2].item
      IN  /\ marshall(a) \in store
          /\ marshall(b) \in store
          /\ Get(a, K_NameLowercase) = Get(b, K_NameLowercase)
          /\ Get(a, K_ItemID) # Get(b, K_ItemID)

\* two requests of one key both missed, generated and stored: two records of
\* the same NameLowercase and distinct ItemIDs
C2_Witness ==
  \E r1, r2 \in Requests :
    /\ r1 # r2 /\ ReturnedNew(r1) /\ ReturnedNew(r2)
    /\ log[r1] = NewItemPath /\ log[r2] = NewItemPath
    /\ \E x, y \in store :
         /\ x # y
         /\ Get(x, K_NameLowercase) = Get(y, K_NameLowercase)
         /\ Get(x, K_ItemID) # Get(y, K_ItemID)
         /\ unmarshall(x) = response[r1].item
         /\ unmarshall(y) = response[r2].item

C3_Step(r) ==
  (pc[r] # "done" /\ pc'[r] = "done" /\ response'[r].statusCode = 200) =>
    \A name \in {event'[r].name} :
    LET resp == response'[r]
        key == sha256(toLowerCase(trim(name)))
    IN  IF resp.found
          THEN /\ "generate" \notin Range(log'[r])
               /\ \/ /\ log'[r] = <<"cache_get", "respond">>
                     /\ key \in DOMAIN cache
                     /\ resp.item = cache[key].data
                  \/ /\ log'[r] = <<"cache_get", "store_query", "cache_set", "respond">>
                     /\ marshall(resp.item) \in store
          ELSE /\ log'[r] = NewItemPath
               /\ {K_ItemID, K_DateAdded, K_NameLowercase} \subseteq Keys(resp.item)
               /\ validateInput(WithoutSystemFields(resp.item))
               /\ isConsumableIngredient(WithoutSystemFields(resp.item))
               /\ validateStorage(resp.item)
               /\ marshall(resp.item) \in store
               /\ marshall(resp.item) \in store'
               /\ \E rec \in store : unmarshall(rec) = resp.item
               /\ key \in DOMAIN cache'
               /\ cache'[key] = [data |-> resp.item, timestamp |-> now]

\* C3: a request returns 200 found:false only at the end of the whole
\* generate-and-store path, with an item that has the three system fields,
\* passes both schemas and the consumability check, is the record put into
\* the store, as marshalled and as read back, and is the cache's entry; it
\* returns 200 found:true only from the cache or from the store, without a
\* generation call.
C3_SuccessOnlyAfterStore == [][\A r \in Requests : C3_Step(r)]_vars

\* record rec is what marshall makes of object o with the system fields of
\* rec, o passing the input schema and the consumability check and o with
\* these fields passing the storage schema
StoredFormOf(rec, o) ==
  /\ SystemKeys \subseteq Keys(rec)
  /\ validateInput(o)
  /\ isConsumableIngredient(o)
  /\ \A item \in {SetKey(SetKey(SetKey(o, K_ItemID, unmarshall(Get(rec, K_ItemID))),
                                  K_DateAdded, unmarshall(Get(rec, K_DateAdded))),
                           K_NameLowercase, unmarshall(Get(rec, K_NameLowercase)))} :
       /\ validateStorage(item)
       /\ marshall(item) = rec

\* C4 as stated: a request that has ended with 400, 404, 500 or 502 has
\* written neither the cache nor the store, and the cache holds items only,
\* never an error outcome.
C4_ErrorsLeaveNoTrace ==
  /\ \A r \in Requests : ReturnedError(r) => ~Wrote(r)
  /\ \A k \in DOMAIN cache :
       /\ cache[k].data # Null
       /\ Has(cache[k].data, K_ItemID)
       /\ \E r \in Requests : Wrote(r) /\ ~ReturnedError(r)

\* C4: a request that has ended with 400, 404, 500 or 502 has not written
\* the cache, and has not written the store unless it ended with 500
\* "Failed to save item data." after its PutItem, in which case the one record
\* it added is the item it had validated; the cache holds items only, never
\* an error outcome, each set by a request that did not end with an error.
C4_ErrorsLeaveNoCacheEntry ==
  /\ \A r \in Requests :
       ReturnedError(r) =>
         /\ ~wrote[r].cache
         /\ wrote[r].store # {} =>
              /\ response[r] = Respond(500, FALSE, Null, SaveFailed)
              /\ log[r] = SubSeq(NewItemPath, 1, Len(NewItemPath) - 2) \o <<"respond">>
              /\ Cardinality(wrote[r].store) = 1
              /\ \A rec \in wrote[r].store :
                   /\ rec \in store
                   /\ ReplyObjects[replyOf[r]].ok
                   /\ StoredFormOf(rec, ReplyObjects[replyOf[r]].value)
                   /\ Get(rec, K_NameLowercase).str = KeyName(r)
  /\ \A k \in DOMAIN cache :
       /\ cache[k].data # Null
       /\ Has(cache[k].data, K_ItemID)
       /\ \E r \in Requests : wrote[r].cache /\ ~ReturnedError(r)

\* a request failed after its generation call without writing anything, and
\* another ended with 500 after a PutItem that the table had applied; the
\* cache is empty and the store holds that one record
C4_Witness ==
  \E r1, r2 \in Requests :
    /\ r1 # r2
    /\ ReturnedError(r1) /\ "generate" \in Range(log[r1])
    /\ ~Wrote(r1)
    /\ ReturnedError(r2)
    /\ response[r2].error = SaveFailed
    /\ wrote[r2].store # {}
    /\ store = wrote[r2].store
    /\ DOMAIN cache = {}

\* C5: every record of the store passes the storage schema, passes the
\* input schema once its system fields are taken off, is consumable, and was
\* put by a request whose trimmed, lowercased search name is its NameLowercase.
C5_StoredRecordsValid ==
  \A rec \in store :
    LET item == unmarshall(rec)
    IN  /\ validateStorage(item)
        /\ validateInput(WithoutSystemFields(item))
        /\ isConsumableIngredient(WithoutSystemFields(item))
        /\ \E r \in Requests :
             /\ "store_put" \in Range(log[r])
             /\ rec \in wrote[r].store
             /\ \/ pc[r] = "putdone" /\ itemData[r] = item
                \/ ReturnedNew(r) /\ response[r].item = item
                \/ ReturnedError(r) /\ response[r].error = SaveFailed
             /\ Get(item, K_NameLowercase) = JStr(KeyName(r))

C6_Step ==
  /\ \A r \in Requests :
       /\ InOrder(log'[r])
       /\ ("store_query" \in Range(log'[r]) \ Range(log[r])) =>
            \A name \in {event'[r].name} :
              getCachedResponse(sha256(toLowerCase(trim(name)))) = Null
       /\ ("generate" \in Range(log'[r]) \ Range(log[r])) =>
            /\ SubSeq(log[r], 1, 2) = <<"cache_get", "store_query">>
            /\ inflight[r].ok
            /\ inflight[r].Items = <<>>
       /\ ("respond" \in Range(log'[r])) => log'[r][Len(log'[r])] = "respond"
  /\ store' # store =>
       \E r \in Requests :
         /\ pc[r] = "put" /\ pc'[r] = "putdone"
         /\ store' = store \cup {marshall(itemData[r])}
         /\ {"validate_input", "consumability_check", "validate_storage"}
              \subseteq Range(log[r])
         /\ validateInput(WithoutSystemFields(itemData[r]))
         /\ isConsumableIngredient(WithoutSystemFields(itemData[r]))
         /\ validateStorage(itemData[r])
  /\ cache' # cache =>
       \E r \in Requests :
         /\ pc[r] # "done" /\ pc'[r] = "done"
         /\ \/ pc[r] = "queried" /\ inflight[r].ok /\ inflight[r].Items # <<>>
            \/ pc[r] = "putdone" /\ inflight[r].ok /\ marshall(itemData[r]) \in store

\* C6: the steps of a request are taken in the order cache, store, generator,
\* validation, store write, cache write, response, each at most once: the
\* store is queried only on a cache miss, the generator called only on a
\* store miss after that, the store written only with an item that passed
\* both schemas and the consumability check, and the cache written only on a
\* store hit or a successful store write.
C6_SequentialSteps == [][C6_Step]_vars

\* a request went through every component, in order
C6_Witness ==
  \E r \in Requests :
    /\ pc[r] = "done"
    /\ log[r] = NewItemPath
    /\ Wrote(r)

\* C7: a request whose generation reply contains "error": in lower case has
\* ended with 404 straight after the marker check, without a parse attempt,
\* and has written neither the store nor the cache.
C7_MarkerBeforeParse ==
  \A r \in Requests :
    replyOf[r] \in MarkerReplies =>
      /\ pc[r] = "done"
      /\ response[r].statusCode = 404
      /\ log[r] = <<"cache_get", "store_query", "generate", "error_marker_check", "respond">>
      /\ ~Wrote(r)

\* the reply was a schema-valid consumable item with a member "Error", and
\* the request ended with 404
C7_Witness ==
  \E r \in Requests :
    /\ replyOf[r] # 0
    /\ Replies[replyOf[r]] = Serialize(GingerWithErrorKey)
    /\ validateInput(GingerWithErrorKey)
    /\ isConsumableIngredient(GingerWithErrorKey)
    /\ response[r].statusCode = 404

\* C8: getCachedResponse(key) returns the data of the latest
\* setCachedResponse(key, data) when there was one less than 3600000 ms ago,
\* and null otherwise.
C8_GetWithinTTL ==
  got.called =>
    got.result =
      IF got.key \in DOMAIN lastSet /\ now - lastSet[got.key].at < 3600000
        THEN lastSet[got.key].data
        ELSE Null

\* a get returned the stored data one millisecond before the TTL
C8_Witness ==
  /\ got.called
  /\ got.key \in DOMAIN lastSet
  /\ now - lastSet[got.key].at = 3599999
  /\ got.result = lastSet[got.key].data
  /\ got.result # Null

\* the code points of string s, in order
CodePoints(s) ==
  LET starts == SelectSeq([i \in 1..Len(s) |-> i], LAMBDA i : ~IsTrailAt(s, i))
  IN  [j \in 1..Len(starts) |-> CodePointAt(s, starts[j])]

\* c and d are one letter: the same code point, or a capital letter and the
\* small letter of its entry in the case mapping
SameLetter(c, d) ==
  \/ c = d
  \/ c \in DOMAIN UpperToLower /\ UpperToLower[c] = d
  \/ d \in DOMAIN UpperToLower /\ UpperToLower[d] = c

\* two names that differ only in case and surrounding white space: without
\* the white space around them they are the same letters, one by one
SameName(a, b) ==
  LET x == CodePoints(trim(a))
      y == CodePoints(trim(b))
  IN  Len(x) = Len(y) /\ \A i \in 1..Len(x) : SameLetter(x[i], y[i])

\* C9: a request that began after a request of a name differing from its
\* own only in case and surrounding white space had returned 200 with item X
\* makes no generation call, and returns 200 with found:true and X.
C9_AlwaysSameItem ==
  \A r \in Requests :
    \A q \in served[r] :
      SameName(event[q].name, event[r].name) =>
        /\ "generate" \notin Range(log[r])
        /\ pc[r] = "done" => response[r] = Respond(200, TRUE, response[q].item, <<>>)

\* C10: no step removes or changes a record of the store, and no two records
\* of the store have the same ItemID.
C10_AppendOnly ==
  [][/\ store \subseteq store'
     /\ \A a, b \in store' : Get(a, K_ItemID) = Get(b, K_ItemID) => a = b]_vars

\* a PutItem of an item whose ItemID another record has was refused, and the
\* other record is still there
C10_Witness ==
  \E r \in Requests :
    /\ pc[r] = "putdone"
    /\ ~inflight[r].ok
    /\ \E rec \in store :
         /\ Get(rec, K_ItemID) = Get(marshall(itemData[r]), K_ItemID)
         /\ rec # marshall(itemData[r])



\* the status the checks of the handler give reply i, read off the reply
\* itself: 404 for the marker, 500 without a parsable object or with an
\* object the input schema refuses, 404 for a non-consumable ingredient, and
\* 0 for an item that goes on to be stored
ReplyStatus(i) ==
  LET text == trim(Replies[i])
      first == indexOf(text, "{")
      last == lastIndexOf(text, "}")
      parsed == JSONParse(substring(text, first, last + 1))
  IN  IF includes(toLowerCase(text), ErrorMarker) THEN 404
      ELSE IF first = -1 \/ last = -1 THEN 500
      ELSE IF ~parsed.ok THEN 500
      ELSE IF ~validateInput(parsed.value) THEN 500
      ELSE IF ~isConsumableIngredient(parsed.value) THEN 404
      ELSE 0

ReplyStatuses == [i \in 1..Len(Replies) |-> ReplyStatus(i)]

C11_Step(r) ==
  (pc[r] # "done" /\ pc'[r] = "done") =>
    /\ response'[r].statusCode \in {200, 400, 404, 500, 502}
    /\ response[r] = NoResponse
    /\ CASE pc[r] = "idle" ->
              IF ~event'[r].hasName \/ event'[r].name = <<>>
                THEN /\ response'[r].statusCode = 400
                     /\ log'[r] = <<"respond">>
                     /\ cache' = cache /\ store' = store
                ELSE /\ response'[r].statusCode = 200
                     /\ response'[r].found
         [] pc[r] = "queried" ->
              response'[r].statusCode = IF inflight[r].ok THEN 200 ELSE 500
         [] pc[r] = "generate" ->
              response'[r].statusCode =
                IF replyOf'[r] = 0 THEN 502
                ELSE IF ReplyStatuses[replyOf'[r]] = 0 THEN 500
                ELSE ReplyStatuses[replyOf'[r]]
         [] pc[r] = "putdone" ->
              response'[r].statusCode = IF inflight[r].ok THEN 200 ELSE 500
         [] OTHER -> FALSE

\* C11: a request returns once, with 400 for a missing or empty name (no
\* cache, store or generator access), 502 for a failed generation call, 404
\* for the marker or a non-consumable item, 500 for a failed store lookup, a
\* reply without a parsable object, a schema failure or a failed store
\* write, and 200 otherwise; and with no other status.
C11_StatusByFirstFailure == [][\A r \in Requests : C11_Step(r)]_vars

\* one request ended with 502 on a failed generation call, another with 500
\* on a failed store lookup
C11_Witness ==
  \E r1, r2 \in Requests :
    /\ pc[r1] = "done" /\ response[r1].statusCode = 502
    /\ log[r1] = <<"cache_get", "store_query", "generate", "respond">>
    /\ pc[r2] = "done" /\ response[r2].statusCode = 500
    /\ log[r2] = <<"cache_get", "store_query", "respond">>


(***************************************************************************)
(* The record checks on their own: validateInput, isConsumableIngredient,  *)
(* the assignment of the system fields and validateStorage applied to an   *)
(* object drawn from Records, and system fields taken off again.           *)
(***************************************************************************)
\* a key of no schema
K_Color == <<"C","o","l","o","r">>

\* values of Category
Categories ==
  { <<"r","o","o","t"," ","v","e","g","e","t","a","b","l","e">>,
    <<"l","e","a","f","y"," ","g","r","e","e","n">>,
    <<"p","l","a","s","t","i","c"," ","c","o","n","t","a","i","n","e","r">>,
    <<"I","n","d","u","s","t","r","i","a","l"," ","C","h","e","m","i","c","a","l"," ",
      "C","o","m","p","o","u","n","d">>,
    <<"g","a","s","t","r","o","p","o","d">>,
    <<"p","o","i","s","o","n">>,
    <<"R","O","C","U+212A">>,
    <<>> }

\* an ingredient of a Category, and a nutrient of one
IngredientOf(category) == SetKey(GingerObject, K_Category, JStr(category))
NutrientOf(category) == SetKey(SodiumObject, K_Category, JStr(category))

\* the objects the checks are applied to: what the generator may describe,
\* ingredients and nutrients of each Category, an ingredient without one,
\* objects with a system field or an unknown key added, with a required
\* member missing, with a value outside an enum, and with a number for
\* Category
Records ==
  GeneratedObjects
    \cup {IngredientOf(c) : c \in Categories}
    \cup {NutrientOf(c) : c \in Categories}
    \cup {DropKey(GingerObject, K_Category), DropKey(GingerObject, K_Name),
          DropKey(SodiumObject, K_ItemType),
          SetKey(SodiumObject, K_Type, JStr(<<"m","e","t","a","l">>)),
          SetKey(GingerObject, K_DateAdded, JStr(toISOString(0))),
          SetKey(GingerObject, K_Category, JNum(<<"5">>)),
          SetKey(GingerObject, K_Category, JNum(<<"0">>))}
    \cup {SetKey(o, k, JStr(<<"x">>)) :
            o \in {GingerObject, SodiumObject}, k \in SystemKeys \cup {K_Color}}

\* instants at which the system fields are assigned
RecordTimes == {0, CACHE_TTL + 1, MsPerDay - 1}

Verdict(passed) == IF passed THEN "pass" ELSE "fail"

\* line 454
RecValidateInput ==
  /\ ~verdict.assigned /\ ~verdict.dropped
  /\ verdict.input = "none"
  /\ verdict' = [verdict EXCEPT !.input = Verdict(validateInput(doc))]
  /\ UNCHANGED doc

\* line 473
RecIsConsumable ==
  /\ verdict.consumable = "none"
  /\ verdict' = [verdict EXCEPT !.consumable =
                   IF isConsumableIngredientThrows(doc)
                     THEN "throws"
                     ELSE Verdict(isConsumableIngredient(doc))]
  /\ UNCHANGED doc

\* lines 488-490
RecAssign(name, u, t) ==
  /\ ~verdict.assigned /\ ~verdict.dropped
  /\ doc' = AssignSystemFields(doc, normalizeName(name), UUID(u), t)
  /\ verdict' = [verdict EXCEPT !.assigned = TRUE, !.storage = "none"]

\* a system field is taken off the object
RecDrop(k) ==
  /\ Has(doc, k)
  /\ doc' = DropKey(doc, k)
  /\ verdict' = [verdict EXCEPT !.dropped = TRUE, !.storage = "none"]

\* line 493
RecValidateStorage ==
  /\ verdict.storage = "none"
  /\ verdict' = [verdict EXCEPT !.storage = Verdict(validateStorage(doc))]
  /\ UNCHANGED doc

RecordFrame ==
  UNCHANGED <<now, ticks, cache, store, pc, event, inflight, itemData, response, log,
              genStart, replyOf, served, wrote, got, lastSet>>

RecordInit ==
  /\ now = 0
  /\ ticks = 0
  /\ cache = <<>>
  /\ store = {}
  /\ pc = [r \in Requests |-> "idle"]
  /\ event = [r \in Requests |-> [hasName |-> FALSE, name |-> <<>>]]
  /\ inflight = [r \in Requests |-> NoResult]
  /\ itemData = [r \in Requests |-> Null]
  /\ response = [r \in Requests |-> NoResponse]
  /\ log = [r \in Requests |-> <<>>]
  /\ genStart = [r \in Requests |-> 0]
  /\ replyOf = [r \in Requests |-> 0]
  /\ served = [r \in Requests |-> {}]
  /\ wrote = [r \in Requests |-> [cache |-> FALSE, store |-> {}]]
  /\ got = NoGet
  /\ lastSet = <<>>
  /\ doc \in Records
  /\ verdict = NoVerdict

RecordNext ==
  \/ RecValidateInput /\ RecordFrame
  \/ RecIsConsumable /\ RecordFrame
  \/ \E e \in {e \in Events : e.name # <<>>}, u \in 1..MaxUUIDs, t \in RecordTimes :
       RecAssign(e.name, u, t) /\ RecordFrame
  \/ \E k \in SystemKeys : RecDrop(k) /\ RecordFrame
  \/ RecValidateStorage /\ RecordFrame

SpecRecord == RecordInit /\ [][RecordNext]_vars

\* C12: an object that passed validateInput and was then given its three
\* system fields passes validateStorage, and an object without one of the
\* three system fields fails validateStorage.
C12_SystemFieldsKeepValidity ==
  verdict.storage # "none" =>
    /\ (verdict.input = "pass" /\ verdict.assigned /\ ~verdict.dropped)
         => verdict.storage = "pass"
    /\ ~(SystemKeys \subseteq Keys(doc)) => verdict.storage = "fail"

\* an object passed validateInput, was given system fields at an instant
\* other than the epoch, and passed validateStorage
C12_Witness ==
  /\ verdict.input = "pass"
  /\ verdict.assigned /\ ~verdict.dropped
  /\ verdict.storage = "pass"
  /\ Get(doc, K_DateAdded) = JStr(toISOString(MsPerDay - 1))
  /\ Get(doc, K_NameLowercase) = JStr(<<"g","i","n","g","e","r">>)



\* categories of foods that have nothing to do with what the denylist names
UnrelatedCategories ==
  { <<"r","o","o","t"," ","v","e","g","e","t","a","b","l","e">>,
    <<"l","e","a","f","y"," ","g","r","e","e","n">>,
    <<"g","a","s","t","r","o","p","o","d">> }

IsIngredient(o) ==
  Has(o, K_ItemType) /\ Get(o, K_ItemType) = JStr(<<"i","n","g","r","e","d","i","e","n","t">>)

\* the Category of an object, empty when absent
CategoryOf(o) == IF Has(o, K_Category) THEN Get(o, K_Category).str ELSE <<>>

ContainsDeniedTerm(category) ==
  \E i \in 1..Len(nonConsumableCategories) :
    includes(toLowerCase(category), nonConsumableCategories[i])

\* C13 (as stated): isConsumableIngredient accepts every nutrient; it
\* rejects an ingredient exactly when its lowercased Category contains a
\* denylist term; and it rejects no ingredient of a category unrelated to
\* what the denylist names.
C13_ConsumabilityRule ==
  verdict.consumable # "none" =>
    /\ ~IsIngredient(doc) => verdict.consumable = "pass"
    /\ IsIngredient(doc) =>
         (verdict.consumable = "fail" <=> ContainsDeniedTerm(CategoryOf(doc)))
    /\ (IsIngredient(doc) /\ CategoryOf(doc) \in UnrelatedCategories)
         => verdict.consumable = "pass"




\* the replies that hold an object with a top-level key outside
\* inputSchema.properties
ExtraKeyReplies ==
  {i \in 1..Len(Replies) :
     /\ ReplyObjects[i].ok
     /\ ~(Keys(ReplyObjects[i].value) \subseteq inputProperties)}

\* a valid object stops being valid with a system field or an unknown key
ExtraKeyRefused ==
  \A o \in {GingerObject, SodiumObject} :
    /\ validateInput(o)
    /\ \A k \in SystemKeys \cup {K_Color} : ~validateInput(SetKey(o, k, JStr(<<"x">>)))

\* every record of the table is what marshall makes of a generated object
\* without a top-level key outside inputSchema.properties, as parsed, plus
\* the three system fields
RecordsOfKnownKeys ==
  \A rec \in store :
    \E r \in Requests :
      /\ replyOf[r] # 0
      /\ ReplyObjects[replyOf[r]].ok
      /\ Keys(ReplyObjects[replyOf[r]].value) \subseteq inputProperties
      /\ WithoutSystemFields(rec).members = marshall(ReplyObjects[replyOf[r]].value).members

\* C14 as stated: validateInput refuses an otherwise valid object with a
\* system field or an unknown top-level key; a request that received an
\* object with an unknown top-level key ends with 500 at the input
\* validation, having written neither the table nor the cache; and every
\* record of the table is a generated object plus the three system fields.
C14_ClosedInputSchema ==
  /\ ExtraKeyRefused
  /\ \A r \in Requests :
       replyOf[r] \in ExtraKeyReplies =>
         /\ pc[r] = "done"
         /\ response[r] = Respond(500, FALSE, Null, InvalidInput)
         /\ log[r] = <<"cache_get", "store_query", "generate", "error_marker_check",
                       "parse", "validate_input", "respond">>
         /\ ~Wrote(r)
  /\ RecordsOfKnownKeys

\* C14: validateInput refuses an otherwise valid object with a system field
\* or an unknown top-level key; a request that received an object with an
\* unknown top-level key has written neither the table nor the cache, and
\* ends with 404 at the marker check when the reply contains "error": in
\* any letter case, as it does when the unknown key is "error", and with 500
\* at the input validation otherwise; and every record of the table is a
\* generated object plus the three system fields.
C14_ClosedInputSchemaAfterMarker ==
  /\ ExtraKeyRefused
  /\ \A r \in Requests :
       replyOf[r] \in ExtraKeyReplies =>
         /\ pc[r] = "done"
         /\ ~Wrote(r)
         /\ IF replyOf[r] \in MarkerReplies
              THEN /\ response[r] = Respond(404, FALSE, Null, NotConsumable(event[r].name))
                   /\ log[r] = <<"cache_get", "store_query", "generate",
                                 "error_marker_check", "respond">>
              ELSE /\ response[r] = Respond(500, FALSE, Null, InvalidInput)
                   /\ log[r] = <<"cache_get", "store_query", "generate",
                                 "error_marker_check", "parse", "validate_input",
                                 "respond">>
  /\ RecordsOfKnownKeys

\* one reply was a valid nutrient plus an ItemID, and the request ended with
\* 500; another was a valid nutrient plus a key "error", and the request
\* ended with 404
C14_Witness ==
  \E r1, r2 \in Requests :
    /\ replyOf[r1] \in ExtraKeyReplies \ MarkerReplies
    /\ Has(ReplyObjects[replyOf[r1]].value, K_ItemID)
    /\ validateInput(DropKey(ReplyObjects[replyOf[r1]].value, K_ItemID))
    /\ response[r1].statusCode = 500
    /\ replyOf[r2] \in ExtraKeyReplies \cap MarkerReplies
    /\ validateInput(DropKey(ReplyObjects[replyOf[r2]].value, <<"e","r","r","o","r">>))
    /\ response[r2].statusCode = 404



\* the steps of the generate path in the order of the handler's text
GenerateOrder ==
  <<"generate", "error_marker_check", "parse", "validate_input", "consumability_check",
    "assign_system_fields", "validate_storage", "store_put", "cache_set", "respond">>

\* the same steps with the parse put before the marker check
GenerateOrderParseFirst ==
  <<"generate", "parse", "error_marker_check", "validate_input", "consumability_check",
    "assign_system_fields", "validate_storage", "store_put", "cache_set", "respond">>

\* l runs through the first steps of order without a gap, and may then end
\* with the response
FollowsOrder(l, order) ==
  \E n \in 0..Len(order) :
    \/ l = SubSeq(order, 1, n)
    \/ l = SubSeq(order, 1, n) \o <<"respond">>

\* the steps of request r from its generation call on
GenerateSteps(r) == SubSeq(log[r], 3, Len(log[r]))

\* the replies with the marker and without a { ... } span
MarkerOnlyReplies ==
  {i \in MarkerReplies :
     indexOf(trim(Replies[i]), "{") = -1 \/ lastIndexOf(trim(Replies[i]), "}") = -1}

\* C15 (as stated): from the generation call on, a request runs GENERATE,
\* PARSE, ERROR_MARKER_CHECK, VALIDATE_INPUT, CONSUMABILITY_CHECK,
\* ASSIGN_SYSTEM_FIELDS, VALIDATE_STORAGE, PERSIST, CACHE_SET, RESPOND_NEW in
\* that order, stopping at the first step that fails.
C15_ParseBeforeMarker ==
  \A r \in Requests :
    "generate" \in Range(log[r]) => FollowsOrder(GenerateSteps(r), GenerateOrderParseFirst)

\* C15 (amended): from the generation call on, a request runs GENERATE,
\* ERROR_MARKER_CHECK, PARSE, VALIDATE_INPUT, CONSUMABILITY_CHECK,
\* ASSIGN_SYSTEM_FIELDS, VALIDATE_STORAGE, PERSIST, CACHE_SET, RESPOND_NEW in
\* that order, each step only when the one before it succeeded; a reply with
\* the marker and without a parsable object therefore ends with 404.
C15_MarkerBeforeParseOrder ==
  \A r \in Requests :
    "generate" \in Range(log[r]) =>
      LET steps == GenerateSteps(r)
          i == replyOf[r]
      IN  /\ FollowsOrder(steps, GenerateOrder)
          /\ "error_marker_check" \in Range(steps) => i # 0
          /\ "parse" \in Range(steps) => i \notin MarkerReplies
          /\ "validate_input" \in Range(steps) => ReplyObjects[i].ok
          /\ "consumability_check" \in Range(steps) => validateInput(ReplyObjects[i].value)
          /\ "assign_system_fields" \in Range(steps) =>
               isConsumableIngredient(ReplyObjects[i].value)
          /\ "store_put" \in Range(steps) =>
               \/ pc[r] \in {"put", "putdone"} /\ validateStorage(itemData[r])
               \/ pc[r] = "done"
          /\ "cache_set" \in Range(steps) =>
               ReturnedNew(r) /\ marshall(response[r].item) \in store
          /\ (i \in MarkerOnlyReplies /\ pc[r] = "done") => response[r].statusCode = 404

\* one request went through the whole generate path, and another got a reply
\* with the marker and no object and ended with 404 without a parse
C15_Witness ==
  \E r1, r2 \in Requests :
    /\ pc[r1] = "done" /\ GenerateSteps(r1) = GenerateOrder
    /\ replyOf[r2] \in MarkerOnlyReplies
    /\ pc[r2] = "done" /\ response[r2].statusCode = 404
    /\ GenerateSteps(r2) = <<"generate", "error_marker_check", "respond">>



\* the key of the cache under which request r looks and writes
CacheKeyOf(r) == sha256(KeyName(r))

C16_Step ==
  /\ \A r \in Requests :
       /\ ("cache_get" \in Range(log'[r]) \ Range(log[r])) => cache' = cache
       /\ (pc[r] = "idle" /\ log'[r] = <<"cache_get", "respond">>) =>
            \A name \in {event'[r].name} :
            LET key == sha256(toLowerCase(trim(name)))
            IN  /\ key \in DOMAIN cache
                /\ now - cache[key].timestamp < CACHE_TTL
                /\ response'[r].item = cache[key].data
  /\ DOMAIN cache \subseteq DOMAIN cache'
  /\ cache' # cache =>
       \E r \in Requests :
         \E item \in {unmarshall(rec) : rec \in store} \cup {itemData[r]} :
           /\ \/ /\ pc[r] = "queried" /\ inflight[r].ok
                 /\ inflight[r].Items # <<>>
                 /\ item = unmarshall(inflight[r].Items[1])
              \/ /\ pc[r] = "putdone" /\ inflight[r].ok
                 /\ item = itemData[r]
                 /\ marshall(item) \in store
           /\ DOMAIN cache' = DOMAIN cache \cup {CacheKeyOf(r)}
           /\ \A k \in DOMAIN cache' :
                cache'[k] = IF k = CacheKeyOf(r)
                              THEN [data |-> item, timestamp |-> now]
                              ELSE cache[k]

\* C16: the step of a request that reads the cache leaves the cache as it
\* is; an entry is returned only while younger than the TTL counted from the
\* timestamp its write gave it; no entry is ever removed; and the cache
\* changes only by a write, at the current time and under the request's own
\* key, of the item just read from the table or just put into it.
C16_GetLeavesCache == [][C16_Step]_vars

\* a request found a stale entry under its key, went on to the table, and
\* the stale entry is still in the cache
C16_Witness ==
  \E r \in Requests :
    /\ pc[r] \in {"query", "queried"}
    /\ CacheKeyOf(r) \in DOMAIN cache
    /\ now - cache[CacheKeyOf(r)].timestamp >= CACHE_TTL



\* C17: every item in the cache, live or stale, is a record of the table:
\* the table holds its marshalled form, and a record that reads back as it.
C17_CacheWithinStore ==
  \A k \in DOMAIN cache :
    /\ marshall(cache[k].data) \in store
    /\ \E rec \in store : unmarshall(rec) = cache[k].data

\* C18: the entry of the cache under the fingerprint of a normalized name
\* holds an item whose NameLowercase is that name, and an item returned from
\* the cache or the table has the normalized search name as NameLowercase.
C18_CacheKeyMatchesName ==
  /\ \A k \in DOMAIN cache :
       /\ Has(cache[k].data, K_NameLowercase)
       /\ k = sha256(Get(cache[k].data, K_NameLowercase).str)
  /\ \A r \in Requests :
       ReturnedFound(r) => Get(response[r].item, K_NameLowercase) = JStr(KeyName(r))

\* a request for "Ginger " was served, from the cache, the entry written by
\* a request for "ginger"
C18_Witness ==
  \E r, q \in Requests :
    /\ ReturnedFound(r)
    /\ log[r] = <<"cache_get", "respond">>
    /\ event[r].name = <<"G","i","n","g","e","r"," ">>
    /\ ReturnedNew(q)
    /\ event[q].name = <<"g","i","n","g","e","r">>
    /\ Get(response[r].item, K_NameLowercase) = JStr(<<"g","i","n","g","e","r">>)
    /\ cache[CacheKeyOf(r)].data = response[q].item


=============================================================================
